---- MODULE Spec2Model ----
(***************************************************************************)
(* A model of the shogi_mate1 rules engine and mate-in-1 solver:           *)
(* pieces.py, move.py, board.py, rules.py, attack.py, movegen.py,         *)
(* solver/mate1.py and puzzles/storage.py.  A Board is a record with the   *)
(* four fields of the                                                      *)
(* dataclass; a Python Optional is a sequence of length 0 (None) or 1; a   *)
(* Python str is a sequence of one-character strings; a Python list is a   *)
(* sequence; a dict is a function whose DOMAIN is its key set.             *)
(***************************************************************************)
EXTENDS Integers, Sequences, FiniteSets, TLC

VARIABLES board, saved, move, captured, promoted, pc, text, ret,
          puzzle_file, calls

vars == <<board, saved, move, captured, promoted, pc, text, ret,
          puzzle_file, calls>>

----------------------------------------------------------------------------
(* Python helpers *)

None == <<>>

Some(x) == <<x>>

Abs(x) == IF x < 0 THEN -x ELSE x

Max(a, b) == IF a >= b THEN a ELSE b

\* dict.get(k, 0)
Get(d, k) == IF k \in DOMAIN d THEN d[k] ELSE 0

\* d[k] = v
Put(d, k, v) == [x \in (DOMAIN d) \cup {k} |-> IF x = k THEN v ELSE d[x]]

\* del d[k]
Del(d, k) == [x \in (DOMAIN d) \ {k} |-> d[x]]

\* the elements of a list
Elements(s) == {s[k] : k \in 1..Len(s)}

EmptyDict == [x \in {} |-> 0]

----------------------------------------------------------------------------
(* pieces.py *)

EMPTY == 0
KING == 1
ROOK == 2
BISHOP == 3
GOLD == 4
SILVER == 5
KNIGHT == 6
LANCE == 7
PAWN == 8
PROMOTED_ROOK == 9
PROMOTED_BISHOP == 10
PROMOTED_SILVER == 11
PROMOTED_KNIGHT == 12
PROMOTED_LANCE == 13
PROMOTED_PAWN == 14

KING_MOVES == << <<-1, -1>>, <<0, -1>>, <<1, -1>>,
                 <<-1, 0>>,             <<1, 0>>,
                 <<-1, 1>>,  <<0, 1>>,  <<1, 1>> >>

ROOK_DIRECTIONS == << <<0, -1>>, <<0, 1>>, <<-1, 0>>, <<1, 0>> >>

BISHOP_DIRECTIONS == << <<-1, -1>>, <<1, -1>>, <<-1, 1>>, <<1, 1>> >>

GOLD_MOVES == << <<-1, -1>>, <<0, -1>>, <<1, -1>>,
                 <<-1, 0>>,             <<1, 0>>,
                             <<0, 1>> >>

SILVER_MOVES == << <<-1, -1>>, <<0, -1>>, <<1, -1>>,
                   <<-1, 1>>,             <<1, 1>> >>

KNIGHT_MOVES == << <<-1, -2>>, <<1, -2>> >>

LANCE_DIRECTIONS == << <<0, -1>> >>

PAWN_MOVES == << <<0, -1>> >>

PROMOTED_ROOK_MOVES == KING_MOVES

PROMOTED_BISHOP_MOVES == KING_MOVES

\* [(-df, -dr) for df, dr in moves]
Flip(vs) == [i \in 1..Len(vs) |-> <<-(vs[i][1]), -(vs[i][2])>>]

get_piece_moves(piece) ==
    LET piece_type == Abs(piece)
        is_gote == piece < 0
        moves == IF piece_type = KING THEN KING_MOVES
                 ELSE IF piece_type = GOLD THEN GOLD_MOVES
                 ELSE IF piece_type = SILVER THEN SILVER_MOVES
                 ELSE IF piece_type = KNIGHT THEN KNIGHT_MOVES
                 ELSE IF piece_type = PAWN THEN PAWN_MOVES
                 ELSE IF piece_type \in {PROMOTED_SILVER, PROMOTED_KNIGHT,
                                         PROMOTED_LANCE, PROMOTED_PAWN}
                      THEN GOLD_MOVES
                 ELSE <<>>
    IN  IF is_gote THEN Flip(moves) ELSE moves

get_piece_directions(piece) ==
    LET piece_type == Abs(piece)
        is_gote == piece < 0
        directions == IF piece_type = ROOK THEN ROOK_DIRECTIONS
                      ELSE IF piece_type = BISHOP THEN BISHOP_DIRECTIONS
                      ELSE IF piece_type = LANCE THEN LANCE_DIRECTIONS
                      ELSE IF piece_type = PROMOTED_ROOK THEN ROOK_DIRECTIONS
                      ELSE IF piece_type = PROMOTED_BISHOP THEN BISHOP_DIRECTIONS
                      ELSE <<>>
    IN  IF is_gote THEN Flip(directions) ELSE directions

is_sliding_piece(piece) ==
    Abs(piece) \in {ROOK, BISHOP, LANCE, PROMOTED_ROOK, PROMOTED_BISHOP}

can_promote(piece) ==
    Abs(piece) \in {ROOK, BISHOP, SILVER, KNIGHT, LANCE, PAWN}

\* a mutation of promotion_map: the Lance promotes to the promoted Pawn
promotion_map_shared(piece_type) ==
    CASE piece_type = ROOK -> PROMOTED_ROOK
      [] piece_type = BISHOP -> PROMOTED_BISHOP
      [] piece_type = SILVER -> PROMOTED_SILVER
      [] piece_type = KNIGHT -> PROMOTED_KNIGHT
      [] piece_type = LANCE -> PROMOTED_PAWN
      [] piece_type = PAWN -> PROMOTED_PAWN

promotion_map(piece_type) ==
    CASE piece_type = ROOK -> PROMOTED_ROOK
      [] piece_type = BISHOP -> PROMOTED_BISHOP
      [] piece_type = SILVER -> PROMOTED_SILVER
      [] piece_type = KNIGHT -> PROMOTED_KNIGHT
      [] piece_type = LANCE -> PROMOTED_LANCE
      [] piece_type = PAWN -> PROMOTED_PAWN

promote(piece) ==
    IF ~can_promote(piece) THEN piece
    ELSE LET promoted_type == promotion_map(Abs(piece))
         IN  IF piece < 0 THEN -promoted_type ELSE promoted_type

unpromotion_map(piece_type) ==
    CASE piece_type = PROMOTED_ROOK -> ROOK
      [] piece_type = PROMOTED_BISHOP -> BISHOP
      [] piece_type = PROMOTED_SILVER -> SILVER
      [] piece_type = PROMOTED_KNIGHT -> KNIGHT
      [] piece_type = PROMOTED_LANCE -> LANCE
      [] piece_type = PROMOTED_PAWN -> PAWN

\* unpromote that hands back the piece as it is
unpromote_kept(piece) == piece

unpromote(piece) ==
    LET piece_type == Abs(piece)
    IN  IF piece_type \in {PROMOTED_ROOK, PROMOTED_BISHOP, PROMOTED_SILVER,
                           PROMOTED_KNIGHT, PROMOTED_LANCE, PROMOTED_PAWN}
        THEN (IF piece < 0 THEN -unpromotion_map(piece_type)
                           ELSE unpromotion_map(piece_type))
        ELSE piece

----------------------------------------------------------------------------
(* move.py *)

\* Move(from_sq, to_sq, drop_piece=None, is_promote=False)
Move(from_sq, to_sq, drop_piece, is_promote) ==
    [from_sq |-> from_sq, to_sq |-> to_sq,
     drop_piece |-> drop_piece, is_promote |-> is_promote]

is_drop(m) == m.drop_piece # None

\* index_to_file_rank(index) = (file, rank)
index_file(index) == 9 - (index % 9)

index_rank(index) == (index \div 9) + 1

square_to_index(file, rank) == (rank - 1) * 9 + (9 - file)

----------------------------------------------------------------------------
(* board.py *)

\* Board(): 81 empty squares, Sente to move, empty hands
NewBoard ==
    [squares |-> [i \in 0..80 |-> 0], side_to_move |-> 1,
     hand_sente |-> EmptyDict, hand_gote |-> EmptyDict]

get_piece(b, file, rank) == b.squares[square_to_index(file, rank)]

\* Optional index of the first square holding side's King
find_king(b, side) ==
    LET king_piece == IF side > 0 THEN KING ELSE -KING
        at == {i \in 0..80 : b.squares[i] = king_piece}
    IN  IF at = {} THEN None
        ELSE Some(CHOOSE i \in at : \A j \in at : i <= j)

\* HandTake without the "del": a kind whose count reaches 0 stays a key
HandTakeKeepsKey(hand, piece_type) ==
    Put(hand, piece_type, Get(hand, piece_type) - 1)

\* a mutation of HandTake: the key is deleted only below zero
HandTakeKeepsZero(hand, piece_type) ==
    LET n == Get(hand, piece_type) - 1
    IN  IF n < 0 THEN Del(hand, piece_type) ELSE Put(hand, piece_type, n)

\* a mutation of HandTake: the piece stays in the hand
HandTakeNothing(hand, piece_type) == hand

\* hand[piece_type] = hand.get(piece_type, 0) - 1; del when <= 0
HandTake(hand, piece_type) ==
    LET n == Get(hand, piece_type) - 1
    IN  IF n <= 0 THEN Del(hand, piece_type) ELSE Put(hand, piece_type, n)

\* hand[piece_type] = hand.get(piece_type, 0) + 1
HandAdd(hand, piece_type) == Put(hand, piece_type, Get(hand, piece_type) + 1)

\* apply_move: the board after the move and the undo record it returns
apply_move(b, m) ==
    IF is_drop(m)
    THEN LET piece_type == Abs(m.drop_piece[1])
         IN  [board |-> [squares |-> [b.squares EXCEPT ![m.to_sq] = m.drop_piece[1]],
                         side_to_move |-> -b.side_to_move,
                         hand_sente |-> IF b.side_to_move > 0
                                        THEN HandTake(b.hand_sente, piece_type)
                                        ELSE b.hand_sente,
                         hand_gote |-> IF b.side_to_move > 0
                                       THEN b.hand_gote
                                       ELSE HandTake(b.hand_gote, piece_type)],
              captured |-> 0,
              promoted |-> None]
    ELSE LET from == m.from_sq[1]
             captured_piece == b.squares[m.to_sq]
             moving_piece == IF m.is_promote THEN promote(b.squares[from])
                             ELSE b.squares[from]
             piece_type == Abs(unpromote(captured_piece))
         IN  [board |-> [squares |-> [[b.squares EXCEPT ![m.to_sq] = moving_piece]
                                         EXCEPT ![from] = 0],
                         side_to_move |-> -b.side_to_move,
                         hand_sente |-> IF captured_piece # 0 /\ b.side_to_move > 0
                                        THEN HandAdd(b.hand_sente, piece_type)
                                        ELSE b.hand_sente,
                         hand_gote |-> IF captured_piece # 0 /\ ~(b.side_to_move > 0)
                                       THEN HandAdd(b.hand_gote, piece_type)
                                       ELSE b.hand_gote],
              captured |-> captured_piece,
              promoted |-> IF m.is_promote THEN Some(moving_piece) ELSE None]

\* undo_move(move, captured_piece, promoted_from): the board after the undo
undo_move(b, m, captured_piece, promoted_from) ==
    LET side == -b.side_to_move
    IN  IF is_drop(m)
        THEN LET piece_type == Abs(m.drop_piece[1])
             IN  [squares |-> [b.squares EXCEPT ![m.to_sq] = 0],
                  side_to_move |-> side,
                  hand_sente |-> IF side > 0 THEN HandAdd(b.hand_sente, piece_type)
                                 ELSE b.hand_sente,
                  hand_gote |-> IF side > 0 THEN b.hand_gote
                                ELSE HandAdd(b.hand_gote, piece_type)]
        ELSE LET moving_piece == IF promoted_from # None
                                 THEN unpromote(b.squares[m.to_sq])
                                 ELSE b.squares[m.to_sq]
                 piece_type == Abs(unpromote(captured_piece))
             IN  [squares |-> [[b.squares EXCEPT ![m.from_sq[1]] = moving_piece]
                                  EXCEPT ![m.to_sq] = captured_piece],
                  side_to_move |-> side,
                  hand_sente |-> IF captured_piece # 0 /\ side > 0
                                 THEN HandTake(b.hand_sente, piece_type)
                                 ELSE b.hand_sente,
                  hand_gote |-> IF captured_piece # 0 /\ ~(side > 0)
                                THEN HandTake(b.hand_gote, piece_type)
                                ELSE b.hand_gote]

----------------------------------------------------------------------------
(* attack.py *)

is_valid_square(file, rank) == 1 <= file /\ file <= 9 /\ 1 <= rank /\ rank <= 9

\* a mutation of SameSide: no piece is taken for a friendly one
SameSideNever(piece, other) == FALSE

\* same side: (piece > 0 and other > 0) or (piece < 0 and other < 0)
SameSide(piece, other) == (piece > 0 /\ other > 0) \/ (piece < 0 /\ other < 0)

\* the two nested direction tests of the slider loop
SlideDirHit(df, dr, dir_df, dir_dr) ==
    /\ ~(dir_df = 0 /\ dir_dr = 0)
    /\ df * dir_dr = dr * dir_df
    /\ df * dir_df >= 0
    /\ dr * dir_dr >= 0
    /\ \/ (df = 0 /\ dir_df = 0)
       \/ (dr = 0 /\ dir_dr = 0)
       \/ (df # 0 /\ dir_df # 0 /\ df * dir_df > 0 /\ dr * dir_dr > 0)

\* the path loop: no piece on steps 1..steps-1 from the attacker
SlidePathClear(b, attacker_file, attacker_rank, dir_df, dir_dr, steps) ==
    \A step \in 1..(steps - 1) :
        b.squares[square_to_index(attacker_file + dir_df * step,
                                  attacker_rank + dir_dr * step)] = 0

\* the trailing step loops: (df, dr) is one of get_piece_moves(piece)
StepHit(piece, df, dr) ==
    LET moves == get_piece_moves(piece)
    IN  \E k \in 1..Len(moves) : df = moves[k][1] /\ dr = moves[k][2]

is_attacked_by_piece(b, target_sq, attacker_sq) ==
    LET piece == b.squares[attacker_sq]
        attacker_file == index_file(attacker_sq)
        attacker_rank == index_rank(attacker_sq)
        df == index_file(target_sq) - attacker_file
        dr == index_rank(target_sq) - attacker_rank
        directions == get_piece_directions(piece)
        hits == {k \in 1..Len(directions) :
                    SlideDirHit(df, dr, directions[k][1], directions[k][2])}
        first == CHOOSE k \in hits : \A j \in hits : k <= j
    IN  IF piece = 0 THEN FALSE
        ELSE IF is_sliding_piece(piece)
        THEN IF hits # {}
             THEN SlidePathClear(b, attacker_file, attacker_rank,
                                 directions[first][1], directions[first][2],
                                 Max(Abs(df), Abs(dr)))
             ELSE Abs(piece) \in {PROMOTED_ROOK, PROMOTED_BISHOP}
                  /\ StepHit(piece, df, dr)
        ELSE StepHit(piece, df, dr)

is_attacked(b, square, attacker_side) ==
    \E i \in 0..80 :
        /\ b.squares[i] # 0
        /\ (b.squares[i] > 0 /\ attacker_side > 0) \/ (b.squares[i] < 0 /\ attacker_side < 0)
        /\ is_attacked_by_piece(b, square, i)

is_check(b, side) ==
    LET king_sq == find_king(b, side)
    IN  IF king_sq = None THEN FALSE
        ELSE is_attacked(b, king_sq[1], -side)

----------------------------------------------------------------------------
(* rules.py, without the drop rules *)

\* a mutation of is_promotion_zone: Black's zone for both sides
is_promotion_zone_of_black(rank, side) == rank <= 3

is_promotion_zone(rank, side) == IF side > 0 THEN rank <= 3 ELSE rank >= 7

\* a mutation of must_promote: a Knight is held back on its last rank only
must_promote_on_last_rank(piece, to_rank) ==
    /\ Abs(piece) \in {PAWN, LANCE, KNIGHT}
    /\ (piece < 0 /\ to_rank = 9) \/ (piece > 0 /\ to_rank = 1)

must_promote(piece, to_rank) ==
    LET piece_type == Abs(piece)
        is_gote == piece < 0
    IN  \/ /\ piece_type = PAWN \/ piece_type = LANCE
           /\ (is_gote /\ to_rank = 9) \/ (~is_gote /\ to_rank = 1)
        \/ /\ piece_type = KNIGHT
           /\ (is_gote /\ to_rank >= 8) \/ (~is_gote /\ to_rank <= 2)

\* a mutation of can_move_promote: only the destination rank is looked at
can_move_promote_on_arrival(b, m) ==
    IF is_drop(m) THEN FALSE
    ELSE LET piece == b.squares[m.from_sq[1]]
             side == IF piece > 0 THEN 1 ELSE -1
         IN  /\ can_promote(piece)
             /\ is_promotion_zone(index_rank(m.to_sq), side)

can_move_promote(b, m) ==
    IF is_drop(m) THEN FALSE
    ELSE LET piece == b.squares[m.from_sq[1]]
             side == IF piece > 0 THEN 1 ELSE -1
         IN  /\ can_promote(piece)
             /\ \/ is_promotion_zone(index_rank(m.from_sq[1]), side)
                \/ is_promotion_zone(index_rank(m.to_sq), side)

\* has_double_pawn with the sign of the Pawn it looks for inverted
has_double_pawn_of_enemy(b, file, side) ==
    LET pawn == IF side > 0 THEN -PAWN ELSE PAWN
    IN  \E rank \in 1..9 : get_piece(b, file, rank) = pawn

has_double_pawn(b, file, side) ==
    LET pawn == IF side > 0 THEN PAWN ELSE -PAWN
    IN  \E rank \in 1..9 : get_piece(b, file, rank) = pawn

requires_promotion(b, m) ==
    IF is_drop(m) THEN FALSE
    ELSE must_promote(b.squares[m.from_sq[1]], index_rank(m.to_sq))

----------------------------------------------------------------------------
(* movegen.py: piece moves *)

RECURSIVE SlideWalk(_, _, _, _, _)
\* the inner loop "for step in range(1, 9)" of one slide direction
SlideWalk(b, from_sq, df, dr, step) ==
    LET piece == b.squares[from_sq]
        to_file == index_file(from_sq) + df * step
        to_rank == index_rank(from_sq) + dr * step
        to_sq == square_to_index(to_file, to_rank)
        target == b.squares[to_sq]
        m == Move(Some(from_sq), to_sq, None, FALSE)
    IN  IF step > 8 THEN <<>>
        ELSE IF ~is_valid_square(to_file, to_rank) THEN <<>>
        ELSE IF target # 0 /\ SameSide(piece, target) THEN <<>>
        ELSE <<m>>
             \o (IF can_move_promote(b, m)
                 THEN <<Move(Some(from_sq), to_sq, None, TRUE)>> ELSE <<>>)
             \o (IF target # 0 THEN <<>>
                 ELSE SlideWalk(b, from_sq, df, dr, step + 1))

RECURSIVE SlideMoves(_, _, _, _)
\* the loop "for df, dr in directions", from the k-th direction on
SlideMoves(b, from_sq, directions, k) ==
    IF k > Len(directions) THEN <<>>
    ELSE SlideWalk(b, from_sq, directions[k][1], directions[k][2], 1)
         \o SlideMoves(b, from_sq, directions, k + 1)

RECURSIVE PromotedStepMoves(_, _, _, _)
\* the extra single steps of a promoted Rook or Bishop, from the k-th on
PromotedStepMoves(b, from_sq, steps, k) ==
    LET piece == b.squares[from_sq]
        to_file == index_file(from_sq) + steps[k][1]
        to_rank == index_rank(from_sq) + steps[k][2]
        to_sq == square_to_index(to_file, to_rank)
        target == b.squares[to_sq]
    IN  IF k > Len(steps) THEN <<>>
        ELSE (IF ~is_valid_square(to_file, to_rank) THEN <<>>
              ELSE IF target # 0 /\ SameSide(piece, target) THEN <<>>
              ELSE <<Move(Some(from_sq), to_sq, None, FALSE)>>)
             \o PromotedStepMoves(b, from_sq, steps, k + 1)

RECURSIVE StepMoves(_, _, _, _)
\* the non-sliding branch, from the k-th step vector on
StepMoves(b, from_sq, steps, k) ==
    LET piece == b.squares[from_sq]
        to_file == index_file(from_sq) + steps[k][1]
        to_rank == index_rank(from_sq) + steps[k][2]
        to_sq == square_to_index(to_file, to_rank)
        target == b.squares[to_sq]
        m == Move(Some(from_sq), to_sq, None, FALSE)
        promo_move == Move(Some(from_sq), to_sq, None, TRUE)
    IN  IF k > Len(steps) THEN <<>>
        ELSE (IF ~is_valid_square(to_file, to_rank) THEN <<>>
              ELSE IF target # 0 /\ SameSide(piece, target) THEN <<>>
              ELSE IF requires_promotion(b, m) THEN <<promo_move>>
              ELSE <<m>> \o (IF can_move_promote(b, m) /\ can_promote(piece)
                             THEN <<promo_move>> ELSE <<>>))
             \o StepMoves(b, from_sq, steps, k + 1)

generate_piece_moves(b, from_sq) ==
    LET piece == b.squares[from_sq]
    IN  IF piece = 0 THEN <<>>
        ELSE IF is_sliding_piece(piece)
        THEN SlideMoves(b, from_sq, get_piece_directions(piece), 1)
             \o (IF Abs(piece) \in {PROMOTED_ROOK, PROMOTED_BISHOP}
                 THEN PromotedStepMoves(b, from_sq, get_piece_moves(piece), 1)
                 ELSE <<>>)
        ELSE StepMoves(b, from_sq, get_piece_moves(piece), 1)

\* range(81) as a list
AllSquares == [i \in 1..81 |-> i - 1]

RECURSIVE PieceMovesOf(_, _, _)
\* moves.extend(generate_piece_moves(board, from_sq)) over the squares froms[k..]
PieceMovesOf(b, froms, k) ==
    IF k > Len(froms) THEN <<>>
    ELSE generate_piece_moves(b, froms[k]) \o PieceMovesOf(b, froms, k + 1)

\* the loop "for from_sq, piece in enumerate(board.squares)": the squares that
\* hold a piece of side, in increasing order, and the moves of each
PieceMovesFrom(b, side) ==
    PieceMovesOf(b,
                 SelectSeq(AllSquares,
                           LAMBDA from_sq :
                               /\ b.squares[from_sq] # 0
                               /\ \/ (b.squares[from_sq] > 0 /\ side > 0)
                                  \/ (b.squares[from_sq] < 0 /\ side < 0)),
                 1)

\* a mutation of is_legal_move: the King is tested on the board before the move
is_legal_move_before(b, m) == ~is_check(b, b.side_to_move)

is_legal_move(b, m) ==
    LET temp_board == apply_move(b, m).board
        our_side == -temp_board.side_to_move
    IN  ~is_check(temp_board, our_side)

----------------------------------------------------------------------------
(* rules.py drop rules and movegen.py drops: mutually recursive through     *)
(* is_drop_pawn_mate, which generates the opponent's replies                *)

RECURSIVE legal_moves(_, _)
RECURSIVE pseudo_legal_moves(_, _)
RECURSIVE generate_drops(_, _)
RECURSIVE is_legal_drop(_, _)
RECURSIVE is_drop_pawn_mate(_, _)

is_drop_pawn_mate(b, m) ==
    IF ~is_drop(m) THEN FALSE
    ELSE IF Abs(m.drop_piece[1]) # PAWN THEN FALSE
    ELSE LET temp_board == apply_move(b, m).board
             opponent_side == temp_board.side_to_move
         IN  IF ~is_check(temp_board, opponent_side) THEN FALSE
             ELSE Len(legal_moves(temp_board, opponent_side)) = 0

\* is_legal_drop without the call of is_drop_pawn_mate
is_legal_drop_unmated(b, m) ==
    IF ~is_drop(m) THEN TRUE
    ELSE IF must_promote(m.drop_piece[1], index_rank(m.to_sq)) THEN FALSE
    ELSE IF Abs(m.drop_piece[1]) = PAWN
    THEN ~has_double_pawn(b, index_file(m.to_sq), IF m.drop_piece[1] > 0 THEN 1 ELSE -1)
    ELSE TRUE

is_legal_drop(b, m) ==
    IF ~is_drop(m) THEN TRUE
    ELSE LET piece_type == Abs(m.drop_piece[1])
             to_file == index_file(m.to_sq)
             to_rank == index_rank(m.to_sq)
             side == IF m.drop_piece[1] > 0 THEN 1 ELSE -1
         IN  IF must_promote(m.drop_piece[1], to_rank) THEN FALSE
             ELSE IF piece_type = PAWN
             THEN IF has_double_pawn(b, to_file, side) THEN FALSE
                  ELSE ~is_drop_pawn_mate(b, m)
             ELSE TRUE

\* the keys of a hand, in increasing order (the iteration order of the dict
\* is not observable through the move set)
RECURSIVE SortedKeys(_)
SortedKeys(S) ==
    IF S = {} THEN <<>>
    ELSE LET k == CHOOSE x \in S : \A y \in S : x <= y
         IN  <<k>> \o SortedKeys(S \ {k})

\* the loop "for to_sq in range(81)" for one drop piece
DropsOfKind(b, drop_piece) ==
    LET tos == SelectSeq(AllSquares,
                         LAMBDA to_sq :
                             /\ b.squares[to_sq] = 0
                             /\ is_legal_drop(b, Move(None, to_sq, Some(drop_piece), FALSE)))
    IN  [k \in 1..Len(tos) |-> Move(None, tos[k], Some(drop_piece), FALSE)]

RECURSIVE DropsOfKinds(_, _, _, _, _)
\* the loop "for piece_type, count in hand.items()", from the k-th key on
DropsOfKinds(b, side, hand, keys, k) ==
    IF k > Len(keys) THEN <<>>
    ELSE (IF hand[keys[k]] <= 0 THEN <<>>
          ELSE DropsOfKind(b, IF side > 0 THEN keys[k] ELSE -keys[k]))
         \o DropsOfKinds(b, side, hand, keys, k + 1)

generate_drops(b, side) ==
    LET hand == IF side > 0 THEN b.hand_sente ELSE b.hand_gote
    IN  DropsOfKinds(b, side, hand, SortedKeys(DOMAIN hand), 1)

pseudo_legal_moves(b, side) ==
    PieceMovesFrom(b, side) \o generate_drops(b, side)

legal_moves(b, side) ==
    SelectSeq(pseudo_legal_moves(b, side), LAMBDA m : is_legal_move(b, m))

checking_moves(b) ==
    SelectSeq(legal_moves(b, b.side_to_move),
              LAMBDA m : LET temp_board == apply_move(b, m).board
                         IN  is_check(temp_board, temp_board.side_to_move))

generates_check(b, m) ==
    LET temp_board == apply_move(b, m).board
    IN  is_check(temp_board, temp_board.side_to_move)

----------------------------------------------------------------------------
(* str helpers: a str is a sequence of one-character strings *)

DigitChars == <<"0", "1", "2", "3", "4", "5", "6", "7", "8", "9">>

LowerChars == <<"a", "b", "c", "d", "e", "f", "g", "h", "i", "j", "k", "l", "m",
                "n", "o", "p", "q", "r", "s", "t", "u", "v", "w", "x", "y", "z">>

UpperChars == <<"A", "B", "C", "D", "E", "F", "G", "H", "I", "J", "K", "L", "M",
                "N", "O", "P", "Q", "R", "S", "T", "U", "V", "W", "X", "Y", "Z">>

\* ch.isdigit()
IsDigit(ch) == \E d \in 1..10 : DigitChars[d] = ch

\* int(ch)
DigitVal(ch) == (CHOOSE d \in 1..10 : DigitChars[d] = ch) - 1

\* ch.islower() and ch.upper() / ch.lower() for one character
IsLower(ch) == \E k \in 1..26 : LowerChars[k] = ch

Upper(ch) == IF IsLower(ch) THEN UpperChars[CHOOSE k \in 1..26 : LowerChars[k] = ch]
             ELSE ch

Lower(ch) == IF \E k \in 1..26 : UpperChars[k] = ch
             THEN LowerChars[CHOOSE k \in 1..26 : UpperChars[k] = ch]
             ELSE ch

LowerStr(s) == [i \in 1..Len(s) |-> Lower(s[i])]

RECURSIVE Str(_)
\* str(n) for n >= 0
Str(n) == IF n < 10 THEN <<DigitChars[n + 1]>>
          ELSE Str(n \div 10) \o <<DigitChars[(n % 10) + 1]>>

RECURSIVE SplitWhitespace(_, _, _)
\* s.strip().split(): the maximal runs of non-blank characters, from i on
SplitWhitespace(s, i, cur) ==
    IF i > Len(s) THEN (IF cur = <<>> THEN <<>> ELSE <<cur>>)
    ELSE IF s[i] = " "
         THEN (IF cur = <<>> THEN <<>> ELSE <<cur>>) \o SplitWhitespace(s, i + 1, <<>>)
         ELSE SplitWhitespace(s, i + 1, Append(cur, s[i]))

RECURSIVE SplitOn(_, _, _, _)
\* s.split(sep): the pieces between separators, empty pieces kept
SplitOn(s, sep, i, cur) ==
    IF i > Len(s) THEN <<cur>>
    ELSE IF s[i] = sep THEN <<cur>> \o SplitOn(s, sep, i + 1, <<>>)
    ELSE SplitOn(s, sep, i + 1, Append(cur, s[i]))

RECURSIVE Join(_, _, _)
\* sep.join(parts), from the k-th part on
Join(parts, sep, k) ==
    IF k > Len(parts) THEN <<>>
    ELSE IF k = Len(parts) THEN parts[k]
    ELSE parts[k] \o sep \o Join(parts, sep, k + 1)

----------------------------------------------------------------------------
(* pieces.py: SFEN letters *)

\* PIECE_SFEN.get(piece_type, '?')
PIECE_SFEN(piece_type) ==
    CASE piece_type = KING -> <<"K">>
      [] piece_type = ROOK -> <<"R">>
      [] piece_type = BISHOP -> <<"B">>
      [] piece_type = GOLD -> <<"G">>
      [] piece_type = SILVER -> <<"S">>
      [] piece_type = KNIGHT -> <<"N">>
      [] piece_type = LANCE -> <<"L">>
      [] piece_type = PAWN -> <<"P">>
      [] piece_type = PROMOTED_ROOK -> <<"+", "R">>
      [] piece_type = PROMOTED_BISHOP -> <<"+", "B">>
      [] piece_type = PROMOTED_SILVER -> <<"+", "S">>
      [] piece_type = PROMOTED_KNIGHT -> <<"+", "N">>
      [] piece_type = PROMOTED_LANCE -> <<"+", "L">>
      [] piece_type = PROMOTED_PAWN -> <<"+", "P">>
      [] OTHER -> <<"?">>

\* piece_to_string(piece, japanese=False)
piece_to_string(piece) ==
    IF piece = 0 THEN <<".">>
    ELSE IF piece < 0 THEN LowerStr(PIECE_SFEN(Abs(piece)))
    ELSE PIECE_SFEN(Abs(piece))

\* piece_from_sfen: Optional piece; the reverse lookup stops at the first
\* entry of PIECE_SFEN whose letter matches, which is an unpromoted kind
piece_from_sfen(sfen_char) ==
    IF sfen_char = <<>> \/ sfen_char = <<".">> THEN Some(0)
    ELSE LET has_plus == sfen_char[1] = "+"
             rest == IF has_plus THEN Tail(sfen_char) ELSE sfen_char
             is_gote == rest # <<>> /\ \A i \in 1..Len(rest) : IsLower(rest[i])
             sfen_upper == [i \in 1..Len(rest) |-> Upper(rest[i])]
             found == {t \in KING..PAWN : PIECE_SFEN(t) = sfen_upper}
             piece_type == CHOOSE t \in found : \A u \in found : t <= u
             signed == IF is_gote THEN -piece_type ELSE piece_type
         IN  IF found = {} THEN None
             ELSE IF has_plus THEN Some(promote(signed))
             ELSE Some(signed)

----------------------------------------------------------------------------
(* board.py: SFEN *)

RECURSIVE RowSfen(_, _, _, _)
\* one rank of to_sfen, scanning from file down to 1 with the running count
RowSfen(b, rank, file, empty_count) ==
    LET piece == get_piece(b, file, rank + 1)
        flush == IF empty_count > 0 THEN Str(empty_count) ELSE <<>>
    IN  IF file < 1 THEN flush
        ELSE IF piece = 0 THEN RowSfen(b, rank, file - 1, empty_count + 1)
        ELSE flush \o piece_to_string(piece) \o RowSfen(b, rank, file - 1, 0)

HandOrder == <<ROOK, BISHOP, GOLD, SILVER, KNIGHT, LANCE, PAWN>>

RECURSIVE HandSfenUncounted(_, _, _)
\* HandSfen without the count in front of the letter
HandSfenUncounted(hand, sign, k) ==
    IF k > Len(HandOrder) THEN <<>>
    ELSE (IF Get(hand, HandOrder[k]) > 0
          THEN piece_to_string(sign * HandOrder[k]) ELSE <<>>)
         \o HandSfenUncounted(hand, sign, k + 1)

RECURSIVE HandSfen(_, _, _)
\* one of the two hand loops of to_sfen, from the k-th kind on
HandSfen(hand, sign, k) ==
    LET count == Get(hand, HandOrder[k])
    IN  IF k > Len(HandOrder) THEN <<>>
        ELSE (IF count > 0
              THEN (IF count > 1 THEN Str(count) ELSE <<>>)
                   \o piece_to_string(sign * HandOrder[k])
              ELSE <<>>)
             \o HandSfen(hand, sign, k + 1)

to_sfen(b) ==
    LET sfen_rows == [rank \in 1..9 |-> RowSfen(b, rank - 1, 9, 0)]
        board_sfen == Join(sfen_rows, <<"/">>, 1)
        side_sfen == IF b.side_to_move > 0 THEN <<"b">> ELSE <<"w">>
        hands == IF DOMAIN b.hand_sente # {} \/ DOMAIN b.hand_gote # {}
                 THEN HandSfen(b.hand_sente, 1, 1) \o HandSfen(b.hand_gote, -1, 1)
                 ELSE <<>>
        hand_sfen == IF hands = <<>> THEN <<"-">> ELSE hands
    IN  board_sfen \o <<" ">> \o side_sfen \o <<" ">> \o hand_sfen \o <<" ", "1">>

\* what from_sfen hands back: a board, or the exception it raised
Parsed(b) == [err |-> "", board |-> b]

Raised(e) == [err |-> e, board |-> NewBoard]

RECURSIVE ParseRank(_, _, _, _, _)
\* the while loop over one rank string: the squares after it, or the error
ParseRank(squares, rank_idx, rank_str, i, file) ==
    LET ch == rank_str[i]
        two == ch = "+" /\ i + 1 <= Len(rank_str)
        piece_str == IF two THEN <<ch, rank_str[i + 1]>> ELSE <<ch>>
        piece == piece_from_sfen(piece_str)
        index == square_to_index(file, rank_idx + 1)
        next == IF two THEN i + 2 ELSE i + 1
    IN  IF i > Len(rank_str) THEN [err |-> "", squares |-> squares]
        ELSE IF IsDigit(ch)
        THEN ParseRank(squares, rank_idx, rank_str, i + 1, file - DigitVal(ch))
        ELSE IF piece = None
        THEN ParseRank(squares, rank_idx, rank_str, next, file - 1)
        ELSE IF index > 80 \/ index < -81
        THEN [err |-> "IndexError", squares |-> squares]
        ELSE ParseRank([squares EXCEPT ![IF index < 0 THEN index + 81 ELSE index] = piece[1]],
                       rank_idx, rank_str, next, file - 1)

RECURSIVE ParseRanks(_, _, _)
\* the loop over the nine rank strings, from rank_idx on
ParseRanks(squares, ranks, rank_idx) ==
    LET r == ParseRank(squares, rank_idx, ranks[rank_idx + 1], 1, 9)
    IN  IF rank_idx >= Len(ranks) THEN [err |-> "", squares |-> squares]
        ELSE IF r.err # "" THEN r
        ELSE ParseRanks(r.squares, ranks, rank_idx + 1)

RECURSIVE DigitsEnd(_, _)
\* the index after the run of digits that starts at i
DigitsEnd(s, i) ==
    IF i <= Len(s) /\ IsDigit(s[i]) THEN DigitsEnd(s, i + 1) ELSE i

RECURSIVE DigitsValue(_, _, _, _)
\* count = count * 10 + int(ch) over s[i..j-1]
DigitsValue(s, i, j, count) ==
    IF i >= j THEN count
    ELSE DigitsValue(s, i + 1, j, count * 10 + DigitVal(s[i]))

RECURSIVE ParseHand(_, _, _, _)
\* the while loop over the hand field: the two hands after it
ParseHand(hand_sente, hand_gote, hand_part, i) ==
    LET j == DigitsEnd(hand_part, i)
        digits == DigitsValue(hand_part, i, j, 0)
        count == IF digits = 0 THEN 1 ELSE digits
        two == hand_part[j] = "+" /\ j + 1 <= Len(hand_part)
        piece_char == IF two THEN <<hand_part[j], hand_part[j + 1]>>
                      ELSE <<hand_part[j]>>
        piece == piece_from_sfen(piece_char)
        piece_type == Abs(piece[1])
        next == IF two THEN j + 2 ELSE j + 1
    IN  IF i > Len(hand_part) \/ j > Len(hand_part)
        THEN [hand_sente |-> hand_sente, hand_gote |-> hand_gote]
        ELSE IF piece = None
        THEN ParseHand(hand_sente, hand_gote, hand_part, next)
        ELSE IF piece[1] > 0
        THEN ParseHand(Put(hand_sente, piece_type, Get(hand_sente, piece_type) + count),
                       hand_gote, hand_part, next)
        ELSE ParseHand(hand_sente,
                       Put(hand_gote, piece_type, Get(hand_gote, piece_type) + count),
                       hand_part, next)

from_sfen(sfen) ==
    LET parts == SplitWhitespace(sfen, 1, <<>>)
        ranks == SplitOn(parts[1], "/", 1, <<>>)
        parsed == ParseRanks(NewBoard.squares, ranks, 0)
        hands == IF parts[3] # <<"-">>
                 THEN ParseHand(EmptyDict, EmptyDict, parts[3], 1)
                 ELSE [hand_sente |-> EmptyDict, hand_gote |-> EmptyDict]
    IN  IF Len(parts) < 3 THEN Raised("ValueError")
        ELSE IF Len(ranks) # 9 THEN Raised("ValueError")
        ELSE IF parsed.err # "" THEN Raised(parsed.err)
        ELSE Parsed([squares |-> parsed.squares,
                     side_to_move |-> IF parts[2] = <<"b">> THEN 1 ELSE -1,
                     hand_sente |-> hands.hand_sente,
                     hand_gote |-> hands.hand_gote])

----------------------------------------------------------------------------
(* solver/mate1.py *)

is_mate_in_1(b, m) ==
    LET temp_board == apply_move(b, m).board
        opponent_side == temp_board.side_to_move
    IN  IF ~is_check(temp_board, opponent_side) THEN FALSE
        ELSE Len(legal_moves(temp_board, opponent_side)) = 0

RECURSIVE SumSeq(_, _)
\* sum(response_counts), from the k-th on
SumSeq(s, k) == IF k > Len(s) THEN 0 ELSE s[k] + SumSeq(s, k + 1)

\* MatesOf without the test response_counts[i] == 0
MatesOfEveryCheck(check_moves, response_counts, k) ==
    SubSeq(check_moves, k, Len(check_moves))

RECURSIVE MatesOf(_, _, _)
\* the loop "for i, move in enumerate(check_moves)", from the k-th on
MatesOf(check_moves, response_counts, k) ==
    IF k > Len(check_moves) THEN <<>>
    ELSE (IF response_counts[k] = 0 THEN <<check_moves[k]>> ELSE <<>>)
         \o MatesOf(check_moves, response_counts, k + 1)

\* MateSearchStats(); average_responses is the quotient num / den
MateSearchStats ==
    [total_legal_moves |-> 0, total_checking_moves |-> 0, mate_moves |-> 0,
     average_responses |-> [num |-> 0, den |-> 1]]

\* the tail of find_mate_moves: the list returned and the stats populated
MateReturn(all_moves, check_moves, response_counts, mate_moves) ==
    [mate_moves |-> mate_moves,
     stats |-> [total_legal_moves |-> Len(all_moves),
                total_checking_moves |-> Len(check_moves),
                mate_moves |-> Len(mate_moves),
                average_responses |->
                    IF Len(check_moves) > 0
                    THEN [num |-> SumSeq(response_counts, 1), den |-> Len(check_moves)]
                    ELSE [num |-> 0, den |-> 1]]]

\* find_mate_moves once check_moves and response_counts are filled
MateSelect(all_moves, check_moves, response_counts) ==
    MateReturn(all_moves, check_moves, response_counts,
               MatesOf(check_moves, response_counts, 1))

\* find_mate_moves once all_moves is known: the loop "for move in all_moves"
MateSearch(b, all_moves, check_moves) ==
    MateSelect(all_moves, check_moves,
               [k \in 1..Len(check_moves) |->
                   Len(legal_moves(apply_move(b, check_moves[k]).board,
                                   -b.side_to_move))])

\* find_mate_moves(board, stats): the list returned and the stats populated
find_mate_moves(b) ==
    MateSearch(b, legal_moves(b, b.side_to_move),
               SelectSeq(legal_moves(b, b.side_to_move),
                         LAMBDA m : generates_check(b, m)))

has_unique_mate(b) == Len(find_mate_moves(b).mate_moves) = 1

\* VerifyReturn with is_unique computed like is_mate
VerifyReturnAnyMate(found) ==
    [is_mate |-> Len(found.mate_moves) > 0,
     is_unique |-> Len(found.mate_moves) > 0,
     mate_count |-> Len(found.mate_moves),
     mate_moves |-> found.mate_moves,
     stats |-> found.stats]

\* the dict verify_mate_position builds from mate_moves and stats
VerifyReturn(found) ==
    [is_mate |-> Len(found.mate_moves) > 0,
     is_unique |-> Len(found.mate_moves) = 1,
     mate_count |-> Len(found.mate_moves),
     mate_moves |-> found.mate_moves,
     stats |-> found.stats]

verify_mate_position(b) == VerifyReturn(find_mate_moves(b))

----------------------------------------------------------------------------
(* the SFEN strings the model is run on *)

\* "8k/9/9/9/9/9/9/9/K8": the corner position of demo.py
CornerBoard ==
    << <<"8", "k">>,
       <<"9">>,
       <<"9">>,
       <<"9">>,
       <<"9">>,
       <<"9">>,
       <<"9">>,
       <<"9">>,
       <<"K", "8">> >>

\* "7nk/9/7G1/9/9/9/1g7/9/KN7": a Pawn dropped in front of either King mates
PawnMateBoard ==
    << <<"7", "n", "k">>,
       <<"9">>,
       <<"7", "G", "1">>,
       <<"9">>,
       <<"9">>,
       <<"9">>,
       <<"1", "g", "7">>,
       <<"9">>,
       <<"K", "N", "7">> >>

\* "9/9/6k2/9/4+R4/9/1+b7/9/K8": each King one step from an enemy +R / +B
DragonBoard ==
    << <<"9">>,
       <<"9">>,
       <<"6", "k", "2">>,
       <<"9">>,
       <<"4", "+", "R", "4">>,
       <<"9">>,
       <<"1", "+", "b", "7">>,
       <<"9">>,
       <<"K", "8">> >>

\* "k3+p4/4P4/6N1L/2S6/2N6/9/6n1l/4p4/K3+S4": moves into the last ranks
PromotionBoard ==
    << <<"k", "3", "+", "p", "4">>,
       <<"4", "P", "4">>,
       <<"6", "N", "1", "L">>,
       <<"2", "S", "6">>,
       <<"2", "N", "6">>,
       <<"9">>,
       <<"6", "n", "1", "l">>,
       <<"4", "p", "4">>,
       <<"K", "3", "+", "S", "4">> >>

\* "4k4/9/9/9/2p1P1+P2/9/9/9/4K4": Pawns and a +P on the files
NifuBoard ==
    << <<"4", "k", "4">>,
       <<"9">>,
       <<"9">>,
       <<"9">>,
       <<"2", "p", "1", "P", "1", "+", "P", "2">>,
       <<"9">>,
       <<"9">>,
       <<"9">>,
       <<"4", "K", "4">> >>

\* "4k4/3G1G3/4R4/9/9/9/9/9/4K4": the position of test_simple_mate, with a King
RookMateBoard ==
    << <<"4", "k", "4">>,
       <<"3", "G", "1", "G", "3">>,
       <<"4", "R", "4">>,
       <<"9">>,
       <<"9">>,
       <<"9">>,
       <<"9">>,
       <<"9">>,
       <<"4", "K", "4">> >>

\* "8k/9/6G2/9/7+R1/9/9/9/K8": a +R can step next to the cornered King
DragonMateBoard ==
    << <<"8", "k">>,
       <<"9">>,
       <<"6", "G", "2">>,
       <<"9">>,
       <<"7", "+", "R", "1">>,
       <<"9">>,
       <<"9">>,
       <<"9">>,
       <<"K", "8">> >>

\* the greatest number of Black Pawns in the hand field of an input
MaxPawnsInHand == 2

\* a hand field: ng Black Golds, np Black Pawns, nq White Pawns
HandText(ng, np, nq) ==
    LET t == (IF ng > 0 THEN <<"G">> ELSE <<>>)
             \o (IF np > 1 THEN Str(np) ELSE <<>>)
             \o (IF np > 0 THEN <<"P">> ELSE <<>>)
             \o (IF nq > 0 THEN <<"p">> ELSE <<>>)
    IN  IF t = <<>> THEN <<"-">> ELSE t

SfenText(ranks, side, hand) ==
    Join(ranks, <<"/">>, 1) \o <<" ">> \o side \o <<" ">> \o hand \o <<" ", "1">>

Sides == {<<"b">>, <<"w">>}

\* every board but the one of test_simple_mate with each Black hand; that one
\* with empty hands; three boards also with a White Pawn in hand, and one with
\* a White Gold and Pawn
Positions ==
    {SfenText(ranks, side, HandText(ng, np, 0)) :
        ranks \in {CornerBoard, PawnMateBoard, DragonBoard, PromotionBoard,
                   NifuBoard, DragonMateBoard},
        side \in Sides, ng \in 0..1, np \in 0..MaxPawnsInHand}
    \cup {SfenText(RookMateBoard, side, <<"-">>) : side \in Sides}
    \cup {SfenText(ranks, side, HandText(0, np, 1)) :
            ranks \in {CornerBoard, PawnMateBoard, NifuBoard},
            side \in Sides, np \in 0..1}
    \cup {SfenText(PawnMateBoard, side, <<"g", "p">>) : side \in Sides}

\* "lnsgkgsnl/1r5b1/ppppppppp/9/9/9/PPPPPPPPP/1B5R1/LNSGKGSNL": the start
StartBoard ==
    << <<"l", "n", "s", "g", "k", "g", "s", "n", "l">>,
       <<"1", "r", "5", "b", "1">>,
       <<"p", "p", "p", "p", "p", "p", "p", "p", "p">>,
       <<"9">>,
       <<"9">>,
       <<"9">>,
       <<"P", "P", "P", "P", "P", "P", "P", "P", "P">>,
       <<"1", "B", "5", "R", "1">>,
       <<"L", "N", "S", "G", "K", "G", "S", "N", "L">> >>

\* "+R+B+S+N+L+P3/9/9/4k4/9/4K4/9/9/3+p+l+n+s+b+r": every promoted kind
PromotedBoard ==
    << <<"+", "R", "+", "B", "+", "S", "+", "N", "+", "L", "+", "P", "3">>,
       <<"9">>,
       <<"9">>,
       <<"4", "k", "4">>,
       <<"9">>,
       <<"4", "K", "4">>,
       <<"9">>,
       <<"9">>,
       <<"3", "+", "p", "+", "l", "+", "n", "+", "s", "+", "b", "+", "r">> >>

\* the greatest count written in the hand field of an SFEN input
MaxHandCount == 11

RECURSIVE CountedHand(_, _, _)
\* a hand field: each letter of kinds, from the k-th on, held n times
CountedHand(kinds, n, k) ==
    IF k > Len(kinds) THEN <<>>
    ELSE (IF n > 1 THEN Str(n) ELSE <<>>) \o <<kinds[k]>> \o CountedHand(kinds, n, k + 1)

\* the letters of the hand fields: both orders of the kinds and of the sides
HandKinds ==
    {<<"R", "B", "G", "S", "N", "L", "P">>,
     <<"r", "b", "g", "s", "n", "l", "p">>,
     <<"R", "B", "G", "S", "N", "L", "P", "r", "b", "g", "s", "n", "l", "p">>,
     <<"p", "l", "n", "s", "g", "b", "r", "P", "L", "N", "S", "G", "B", "R">>,
     <<"P", "p", "P">>,
     <<"G", "r">>}

\* an SFEN string with the move number moveno
SfenTextAt(ranks, side, hand, moveno) ==
    Join(ranks, <<"/">>, 1) \o <<" ">> \o side \o <<" ">> \o hand \o <<" ">> \o moveno

\* the SFEN strings of the round trip: every board with every hand field
SfenTexts ==
    {SfenTextAt(ranks, side, hand, moveno) :
        ranks \in {CornerBoard, PawnMateBoard, DragonBoard, PromotionBoard, NifuBoard,
                   RookMateBoard, DragonMateBoard, StartBoard, PromotedBoard},
        side \in Sides,
        hand \in {<<"-">>} \cup {CountedHand(kinds, n, 1) :
                                    kinds \in HandKinds, n \in 1..MaxHandCount},
        moveno \in {<<"1">>, <<"3", "7">>}}

----------------------------------------------------------------------------
(* the program: a Board is parsed, then moved on, queried or emitted *)

NoMove == Move(None, 0, None, FALSE)

NoRet == [op |-> "none"]

Init ==
    /\ board = NewBoard
    /\ saved = NewBoard
    /\ move = NoMove
    /\ captured = 0
    /\ promoted = None
    /\ pc = "new"
    /\ text = <<>>
    /\ ret = NoRet
    /\ puzzle_file = None
    /\ calls = <<>>

\* board = Board.from_sfen(sfen)
FromSfen(sfen) ==
    /\ pc = "new"
    /\ text' = sfen
    /\ LET r == from_sfen(sfen)
       IN  IF r.err = ""
           THEN board' = r.board /\ pc' = "loaded"
           ELSE board' = board /\ pc' = "raised"
    /\ UNCHANGED <<saved, move, captured, promoted, ret, puzzle_file, calls>>

\* saved = board.copy(); captured, promoted = board.apply_move(m), for a move m
\* of legal_moves(board, board.side_to_move)
ApplyMove ==
    /\ pc = "loaded"
    /\ \E m \in Elements(legal_moves(board, board.side_to_move)) :
          /\ move' = m
          /\ board' = apply_move(board, m).board
          /\ captured' = apply_move(board, m).captured
          /\ promoted' = apply_move(board, m).promoted
    /\ saved' = board
    /\ pc' = "applied"
    /\ UNCHANGED <<text, ret, puzzle_file, calls>>

\* board.undo_move(move, captured, promoted)
UndoMove ==
    /\ pc = "applied"
    /\ board' = undo_move(board, move, captured, promoted)
    /\ pc' = "undone"
    /\ UNCHANGED <<saved, move, captured, promoted, text, ret, puzzle_file, calls>>

\* legal_moves(board, board.side_to_move)
LegalMoves ==
    /\ pc = "loaded"
    /\ ret' = [op |-> "legal_moves", moves |-> legal_moves(board, board.side_to_move)]
    /\ pc' = "queried"
    /\ UNCHANGED <<board, saved, move, captured, promoted, text, puzzle_file, calls>>

\* is_mate_in_1(board, m), for a move m of legal_moves(board, board.side_to_move)
IsMateIn1 ==
    /\ pc = "loaded"
    /\ \E m \in Elements(legal_moves(board, board.side_to_move)) :
          /\ move' = m
          /\ ret' = [op |-> "is_mate_in_1", value |-> is_mate_in_1(board, m)]
    /\ pc' = "queried"
    /\ UNCHANGED <<board, saved, captured, promoted, text, puzzle_file, calls>>

\* find_mate_moves(board, stats)
FindMateMoves ==
    /\ pc = "loaded"
    /\ LET r == find_mate_moves(board)
       IN  ret' = [op |-> "find_mate_moves", mate_moves |-> r.mate_moves,
                   stats |-> r.stats]
    /\ pc' = "queried"
    /\ UNCHANGED <<board, saved, move, captured, promoted, text, puzzle_file, calls>>

\* verify_mate_position(board)
VerifyMatePosition ==
    /\ pc = "loaded"
    /\ ret' = [op |-> "verify_mate_position", result |-> verify_mate_position(board)]
    /\ pc' = "queried"
    /\ UNCHANGED <<board, saved, move, captured, promoted, text, puzzle_file, calls>>

\* board.to_sfen()
ToSfen ==
    /\ pc = "loaded"
    /\ ret' = [op |-> "to_sfen", sfen |-> to_sfen(board)]
    /\ pc' = "emitted"
    /\ UNCHANGED <<board, saved, move, captured, promoted, text, puzzle_file, calls>>

\* saved = board; board = Board.from_sfen(board.to_sfen())
Reparse ==
    /\ pc = "emitted"
    /\ saved' = board
    /\ LET r == from_sfen(ret.sfen)
       IN  IF r.err = ""
           THEN board' = r.board /\ pc' = "reparsed"
           ELSE board' = board /\ pc' = "raised"
    /\ UNCHANGED <<move, captured, promoted, text, ret, puzzle_file, calls>>

Next ==
    \/ \E sfen \in Positions : FromSfen(sfen)
    \/ ApplyMove
    \/ UndoMove
    \/ LegalMoves
    \/ IsMateIn1
    \/ FindMateMoves
    \/ VerifyMatePosition
    \/ ToSfen
    \/ Reparse

Spec == Init /\ [][Next]_vars

\* the SFEN round trip alone, over SfenTexts
NextSfen ==
    \/ \E sfen \in SfenTexts : FromSfen(sfen)
    \/ ToSfen
    \/ Reparse

SpecSfen == Init /\ [][NextSfen]_vars

----------------------------------------------------------------------------
(* Board.from_sfen on strings that are not well-formed SFEN *)

\* "4k4/9/9/9/4X4/9/9/9/4K4": a letter that names no piece, in upper case
UnknownUpperBoard ==
    << <<"4", "k", "4">>, <<"9">>, <<"9">>,
       <<"9">>, <<"4", "X", "4">>, <<"9">>,
       <<"9">>, <<"9">>, <<"4", "K", "4">> >>

\* "4k4/9/9/9/2p1z1P2/9/9/9/4K4": a letter that names no piece, in lower case, between two Pawns
UnknownLowerBoard ==
    << <<"4", "k", "4">>, <<"9">>, <<"9">>,
       <<"9">>, <<"2", "p", "1", "z", "1", "P", "2">>, <<"9">>,
       <<"9">>, <<"9">>, <<"4", "K", "4">> >>

\* "4k4/9/9/9/3+?.3/9/9/9/4K4": a promoted unknown character and a '.'
UnknownSymbolBoard ==
    << <<"4", "k", "4">>, <<"9">>, <<"9">>,
       <<"9">>, <<"3", "+", "?", ".", "3">>, <<"9">>,
       <<"9">>, <<"9">>, <<"4", "K", "4">> >>

\* "4k4/9/9/9/9/9/9/4K4": eight ranks
EightRanks ==
    << <<"4", "k", "4">>, <<"9">>, <<"9">>,
       <<"9">>, <<"9">>, <<"9">>,
       <<"9">>, <<"4", "K", "4">> >>

\* "4k4/9/9/9/9/9/9/9/9/4K4": ten ranks
TenRanks ==
    << <<"4", "k", "4">>, <<"9">>, <<"9">>,
       <<"9">>, <<"9">>, <<"9">>,
       <<"9">>, <<"9">>, <<"9">>,
       <<"4", "K", "4">> >>

\* "9k/9/9/9/5P4P/9/9/9/4K5": ten squares on rank 1 and on rank 9, eleven on
\* rank 5
SpillBoard ==
    << <<"9", "k">>, <<"9">>, <<"9">>,
       <<"9">>, <<"5", "P", "4", "P">>, <<"9">>,
       <<"9">>, <<"9">>, <<"4", "K", "5">> >>

\* "4k4/9/9/9/9/9/9/9/9K": a tenth square on rank 9, with a piece on it
LastRankSpillBoard ==
    << <<"4", "k", "4">>, <<"9">>, <<"9">>,
       <<"9">>, <<"9">>, <<"9">>,
       <<"9">>, <<"9">>, <<"9", "K">> >>

\* the board fields given to the parser
ParseBoards ==
    {CornerBoard, NifuBoard, PromotedBoard, UnknownUpperBoard, UnknownLowerBoard,
     UnknownSymbolBoard, EightRanks, TenRanks, SpillBoard, LastRankSpillBoard}

\* the side fields given to the parser
SideFields ==
    {<<"b">>, <<"w">>, <<"B">>, <<"W">>, <<"x">>, <<"-">>, <<"b", "w">>,
     <<"w", "h", "i", "t", "e">>}

\* the hand fields given to the parser
HandFields ==
    {<<"-">>, <<"G">>, <<"2", "P", "p">>, <<"Z">>, <<"G", "2", "z", "P">>,
     <<"+", "?">>, <<"g", "x", "p">>}

\* the strings given to the parser: every combination of the fields, and the
\* strings with fewer than three fields
ParseTexts ==
    {SfenText(ranks, side, hand) :
        ranks \in ParseBoards, side \in SideFields, hand \in HandFields}
    \cup {Join(ranks, <<"/">>, 1) \o <<" ">> \o side :
            ranks \in ParseBoards, side \in SideFields}
    \cup {Join(ranks, <<"/">>, 1) : ranks \in ParseBoards}
    \cup {<<>>, <<" ">>}

NextParse ==
    \/ \E sfen \in ParseTexts : FromSfen(sfen)

SpecParse == Init /\ [][NextParse]_vars

----------------------------------------------------------------------------
(* puzzles/storage.py: PuzzleStorage.  puzzle_file is the content of           *)
(* user_puzzles.json: None while the file does not exist, otherwise the list  *)
(* that json.dump wrote.  calls is the record of the save_puzzle and          *)
(* delete_puzzle calls made so far, with what each returned.                  *)

\* list.pop(index) for 0 <= index < len(list): the list without that entry
Pop(list, index) ==
    [k \in 1..(Len(list) - 1) |-> IF k <= index THEN list[k] ELSE list[k + 1]]

\* the list read from the file; [] when the file does not exist
load_all_puzzles(file) == IF file = None THEN <<>> ELSE file[1]

\* the entry built for sfen: now and later are the two readings of the clock
PuzzleEntry(sfen, name, now, later) ==
    [sfen |-> sfen,
     name |-> IF name # "" THEN name ELSE "Puzzle " \o now,
     description |-> "",
     author |-> "",
     tags |-> <<>>,
     created_at |-> later]

\* a mutation of save_puzzle: the entry is written before the SFEN is validated
save_puzzle_then_validate(file, sfen, name, now, later) ==
    [raised |-> IF from_sfen(sfen).err # "" THEN "ValueError" ELSE "",
     file |-> Some(Append(load_all_puzzles(file), PuzzleEntry(sfen, name, now, later))),
     value |-> IF from_sfen(sfen).err # "" THEN None
               ELSE Some(PuzzleEntry(sfen, name, now, later))]

\* the exception raised (or ""), the file afterwards and the entry returned
save_puzzle(file, sfen, name, now, later) ==
    IF from_sfen(sfen).err # ""
    THEN [raised |-> "ValueError", file |-> file, value |-> None]
    ELSE [raised |-> "",
          file |-> Some(Append(load_all_puzzles(file),
                               PuzzleEntry(sfen, name, now, later))),
          value |-> Some(PuzzleEntry(sfen, name, now, later))]

\* the entry at index, or None
get_puzzle(file, index) ==
    IF 0 <= index /\ index < Len(load_all_puzzles(file))
    THEN Some(load_all_puzzles(file)[index + 1])
    ELSE None

\* a mutation of delete_puzzle: the index is taken as 1-based
delete_puzzle_from_one(file, index) ==
    IF 1 <= index /\ index <= Len(load_all_puzzles(file))
    THEN [file |-> Some(Pop(load_all_puzzles(file), index - 1)), value |-> TRUE]
    ELSE [file |-> file, value |-> FALSE]

\* the file afterwards and the value returned
delete_puzzle(file, index) ==
    IF 0 <= index /\ index < Len(load_all_puzzles(file))
    THEN [file |-> Some(Pop(load_all_puzzles(file), index)), value |-> TRUE]
    ELSE [file |-> file, value |-> FALSE]

count_puzzles(file) == Len(load_all_puzzles(file))

\* the greatest number of save_puzzle and delete_puzzle calls of a behaviour
MaxCalls == 3

\* the readings of the clock, in their order
Clock == <<"20260101_000000">>

\* the names given to save_puzzle; "" is the default
Names == {"", "mate"}

\* "8k/9/9/9/9/9/9/9/K8 b": two fields
TwoFields == Join(CornerBoard, <<"/">>, 1) \o <<" ", "b">>

\* the strings given to save_puzzle
StorageTexts ==
    {SfenText(CornerBoard, <<"b">>, <<"G">>),
     SfenText(RookMateBoard, <<"w">>, <<"-">>),
     TwoFields,
     SfenText(EightRanks, <<"b">>, <<"-">>),
     SfenText(TenRanks, <<"w">>, <<"P">>),
     <<>>}

\* the indexes given to get_puzzle and delete_puzzle: below, at the start of,
\* inside, at the end of and beyond the longest list
Indexes == {-1, 0, 1, MaxCalls - 1, MaxCalls}

\* storage = PuzzleStorage(storage_dir), on the directory already in use
NewPuzzleStorage ==
    /\ ret' = [op |-> "PuzzleStorage", puzzle_file |-> "user_puzzles.json"]
    /\ UNCHANGED <<board, saved, move, captured, promoted, pc, text, puzzle_file, calls>>

\* the step of save_puzzle(sfen, ...) that raised or returned as in result
SavePuzzleReturn(sfen, result) ==
    /\ puzzle_file' = result.file
    /\ ret' = [op |-> "save_puzzle", sfen |-> sfen, raised |-> result.raised,
               value |-> result.value]
    /\ calls' = Append(calls, ret')
    /\ UNCHANGED <<board, saved, move, captured, promoted, pc, text>>

\* storage.save_puzzle(sfen, name)
SavePuzzle(sfen, name, now, later) ==
    /\ Len(calls) < MaxCalls
    /\ SavePuzzleReturn(sfen, save_puzzle(puzzle_file, sfen, name, now, later))

\* storage.delete_puzzle(index)
DeletePuzzle(index) ==
    /\ Len(calls) < MaxCalls
    /\ puzzle_file' = delete_puzzle(puzzle_file, index).file
    /\ ret' = [op |-> "delete_puzzle", index |-> index,
               value |-> delete_puzzle(puzzle_file, index).value]
    /\ calls' = Append(calls, ret')
    /\ UNCHANGED <<board, saved, move, captured, promoted, pc, text>>

\* storage.load_all_puzzles()
LoadAllPuzzles ==
    /\ ret' = [op |-> "load_all_puzzles", value |-> load_all_puzzles(puzzle_file)]
    /\ UNCHANGED <<board, saved, move, captured, promoted, pc, text, puzzle_file, calls>>

\* storage.get_puzzle(index)
GetPuzzle(index) ==
    /\ ret' = [op |-> "get_puzzle", index |-> index,
               value |-> get_puzzle(puzzle_file, index)]
    /\ UNCHANGED <<board, saved, move, captured, promoted, pc, text, puzzle_file, calls>>

\* storage.count_puzzles()
CountPuzzles ==
    /\ ret' = [op |-> "count_puzzles", value |-> count_puzzles(puzzle_file)]
    /\ UNCHANGED <<board, saved, move, captured, promoted, pc, text, puzzle_file, calls>>

NextStorage ==
    \/ NewPuzzleStorage
    \/ \E sfen \in StorageTexts, name \in Names, i \in 1..Len(Clock) :
          \E j \in i..Len(Clock) : SavePuzzle(sfen, name, Clock[i], Clock[j])
    \/ \E index \in Indexes : DeletePuzzle(index)
    \/ LoadAllPuzzles
    \/ \E index \in Indexes : GetPuzzle(index)
    \/ CountPuzzles

SpecStorage == Init /\ [][NextStorage]_vars

----------------------------------------------------------------------------
(* pieces.py, attack.py and movegen.py called one function at a time *)

\* every signed piece value
Pieces == (-PROMOTED_PAWN)..PROMOTED_PAWN

\* "9/9/3k5/4+R4/9/2+b6/2K6/9/9": the White King diagonally next to the Black
\* +Rook, the Black King straight below the White +Bishop
HorseBoard ==
    << <<"9">>, <<"9">>, <<"3", "k", "5">>,
       <<"4", "+", "R", "4">>, <<"9">>, <<"2", "+", "b", "6">>,
       <<"2", "K", "6">>, <<"9">>, <<"9">> >>

\* "4k4/4l4/9/2b1p4/4R2r1/9/4P1B2/4L4/4K4": Rooks, Bishops and Lances of both
\* sides with friendly and opposing pieces on their lines
SliderBoard ==
    << <<"4", "k", "4">>, <<"4", "l", "4">>, <<"9">>,
       <<"2", "b", "1", "p", "4">>, <<"4", "R", "2", "r", "1">>, <<"9">>,
       <<"4", "P", "1", "B", "2">>, <<"4", "L", "4">>, <<"4", "K", "4">> >>

\* the positions of the single calls
PieceTexts ==
    {SfenText(ranks, side, <<"-">>) :
        ranks \in {HorseBoard, SliderBoard, DragonBoard, DragonMateBoard},
        side \in Sides}

\* promote(piece)
Promote(piece) ==
    /\ pc = "new"
    /\ ret' = [op |-> "promote", piece |-> piece, value |-> promote(piece)]
    /\ pc' = "called"
    /\ UNCHANGED <<board, saved, move, captured, promoted, text, puzzle_file, calls>>

\* unpromote(piece)
Unpromote(piece) ==
    /\ pc = "new"
    /\ ret' = [op |-> "unpromote", piece |-> piece, value |-> unpromote(piece)]
    /\ pc' = "called"
    /\ UNCHANGED <<board, saved, move, captured, promoted, text, puzzle_file, calls>>

\* unpromote(promote(piece)), after promote(piece)
UnpromotePromoted ==
    /\ pc = "called"
    /\ ret.op = "promote"
    /\ ret' = [op |-> "unpromote(promote)", piece |-> ret.piece,
               value |-> unpromote(ret.value)]
    /\ pc' = "returned"
    /\ UNCHANGED <<board, saved, move, captured, promoted, text, puzzle_file, calls>>

\* is_attacked_by_piece(board, target_sq, attacker_sq), a piece on attacker_sq
IsAttackedByPiece(target_sq, attacker_sq) ==
    /\ pc = "loaded"
    /\ board.squares[attacker_sq] # 0
    /\ ret' = [op |-> "is_attacked_by_piece", target_sq |-> target_sq,
               attacker_sq |-> attacker_sq,
               value |-> is_attacked_by_piece(board, target_sq, attacker_sq)]
    /\ pc' = "queried"
    /\ UNCHANGED <<board, saved, move, captured, promoted, text, puzzle_file, calls>>

\* generate_piece_moves(board, from_sq), a piece on from_sq
GeneratePieceMoves(from_sq) ==
    /\ pc = "loaded"
    /\ board.squares[from_sq] # 0
    /\ ret' = [op |-> "generate_piece_moves", from_sq |-> from_sq,
               moves |-> generate_piece_moves(board, from_sq)]
    /\ pc' = "queried"
    /\ UNCHANGED <<board, saved, move, captured, promoted, text, puzzle_file, calls>>

\* is_check(board, side)
IsCheck(side) ==
    /\ pc = "loaded"
    /\ ret' = [op |-> "is_check", side |-> side, value |-> is_check(board, side)]
    /\ pc' = "queried"
    /\ UNCHANGED <<board, saved, move, captured, promoted, text, puzzle_file, calls>>

NextPieces ==
    \/ \E piece \in Pieces : Promote(piece)
    \/ \E piece \in Pieces : Unpromote(piece)
    \/ UnpromotePromoted
    \/ \E sfen \in PieceTexts : FromSfen(sfen)
    \/ \E target_sq \in 0..80, attacker_sq \in 0..80 :
          IsAttackedByPiece(target_sq, attacker_sq)
    \/ \E from_sq \in 0..80 : GeneratePieceMoves(from_sq)
    \/ \E side \in {1, -1} : IsCheck(side)

SpecPieces == Init /\ [][NextPieces]_vars

----------------------------------------------------------------------------
(* apply_move and undo_move *)

\* the hand of side on board b
HandOf(b, side) == IF side > 0 THEN b.hand_sente ELSE b.hand_gote

\* the kind a captured piece is held as: the unpromoted origin of its kind
HeldKind(piece) ==
    LET kind == Abs(piece)
    IN  IF kind = PROMOTED_ROOK THEN ROOK
        ELSE IF kind = PROMOTED_BISHOP THEN BISHOP
        ELSE IF kind = PROMOTED_SILVER THEN SILVER
        ELSE IF kind = PROMOTED_KNIGHT THEN KNIGHT
        ELSE IF kind = PROMOTED_LANCE THEN LANCE
        ELSE IF kind = PROMOTED_PAWN THEN PAWN
        ELSE kind

\* C1: for every move of legal_moves(B, B.side_to_move), apply_move followed by
\* undo_move with the record apply_move returned leaves squares, hand_sente,
\* hand_gote and side_to_move equal to their values before apply_move
ApplyUndoInverse ==
    pc = "undone" =>
        /\ board.squares = saved.squares
        /\ board.hand_sente = saved.hand_sente
        /\ board.hand_gote = saved.hand_gote
        /\ board.side_to_move = saved.side_to_move

\* a promoting capture has been applied and undone by a side that held nothing
ApplyUndoInverseWitness ==
    /\ pc = "undone"
    /\ ~is_drop(move)
    /\ move.is_promote
    /\ captured # 0
    /\ DOMAIN HandOf(saved, saved.side_to_move) = {}

\* the last Pawn of a hand has been dropped and taken back
UndoneLastPieceDrop ==
    /\ pc = "undone"
    /\ is_drop(move)
    /\ Get(HandOf(saved, saved.side_to_move), Abs(move.drop_piece[1])) = 1

\* C2: apply_move of a board move onto a square holding an opposing piece adds
\* exactly 1 to the mover's count of the captured piece's unpromoted kind,
\* changes no other count of either hand and returns the piece as it stood on
\* the board; undo_move puts that piece back on to_sq and takes the 1 back
CaptureConservation ==
    (pc \in {"applied", "undone"} /\ ~is_drop(move) /\ saved.squares[move.to_sq] # 0) =>
        LET side == saved.side_to_move
            taken == saved.squares[move.to_sq]
            kind == HeldKind(taken)
            before == HandOf(saved, side)
        IN  /\ captured = taken
            /\ HandOf(board, -side) = HandOf(saved, -side)
            /\ pc = "applied" =>
                  /\ HandOf(board, side) = Put(before, kind, Get(before, kind) + 1)
                  /\ board.squares[move.to_sq] # taken
            /\ pc = "undone" =>
                  /\ HandOf(board, side) = before
                  /\ board.squares[move.to_sq] = taken

\* a promoted piece has been captured by a side that already held its kind,
\* and the capture has been undone
CaptureConservationWitness ==
    /\ pc = "undone"
    /\ ~is_drop(move)
    /\ Abs(captured) >= PROMOTED_ROOK
    /\ Get(HandOf(saved, saved.side_to_move), HeldKind(captured)) >= 1
    /\ saved.squares[move.to_sq] = captured

----------------------------------------------------------------------------
(* legal_moves: self-check, forced promotion, nifu, uchifuzume *)

\* the piece on attacker_sq reaches target_sq under its movement rule: what
\* is_attacked_by_piece finds, and for a promoted Rook or Bishop the single
\* steps that pieces.py declares as PROMOTED_ROOK_MOVES and
\* PROMOTED_BISHOP_MOVES and that get_piece_moves never hands out
attacks(b, attacker_sq, target_sq) ==
    LET piece == b.squares[attacker_sq]
        df == index_file(target_sq) - index_file(attacker_sq)
        dr == index_rank(target_sq) - index_rank(attacker_sq)
    IN  \/ is_attacked_by_piece(b, target_sq, attacker_sq)
        \/ /\ Abs(piece) = PROMOTED_ROOK
           /\ \E k \in 1..Len(PROMOTED_ROOK_MOVES) : PROMOTED_ROOK_MOVES[k] = <<df, dr>>
        \/ /\ Abs(piece) = PROMOTED_BISHOP
           /\ \E k \in 1..Len(PROMOTED_BISHOP_MOVES) : PROMOTED_BISHOP_MOVES[k] = <<df, dr>>

\* some piece of by_side attacks sq
attacked_by_rule(b, sq, by_side) ==
    \E i \in 0..80 :
        /\ b.squares[i] # 0
        /\ (b.squares[i] > 0) = (by_side > 0)
        /\ attacks(b, i, sq)

\* side's King stands on a square that the other side attacks
in_check_by_rule(b, side) ==
    LET king_sq == find_king(b, side)
    IN  king_sq # None /\ attacked_by_rule(b, king_sq[1], -side)

\* C3: on a board where the side to move has a King, after apply_move of a
\* move of legal_moves(B, B.side_to_move) the mover's King square is not
\* attacked by any piece of the other side
NoSelfCheck ==
    (pc = "applied" /\ find_king(saved, saved.side_to_move) # None) =>
        ~in_check_by_rule(board, saved.side_to_move)

\* the same with the attacks that is_attacked of attack.py finds
NoSelfCheckSeenByIsCheck ==
    (pc = "applied" /\ find_king(saved, saved.side_to_move) # None) =>
        ~is_check(board, saved.side_to_move)

\* the piece on sq is one that may not stand there unpromoted
Stranded(b, sq, side) ==
    LET kind == Abs(b.squares[sq])
        rank == index_rank(sq)
    IN  \/ kind \in {PAWN, LANCE} /\ rank = (IF side > 0 THEN 1 ELSE 9)
        \/ kind = KNIGHT /\ (IF side > 0 THEN rank <= 2 ELSE rank >= 8)

\* C4: after apply_move of a board move of legal_moves(B, B.side_to_move) the
\* piece on to_sq is not an unpromoted Pawn or Lance on the mover's last rank
\* and not an unpromoted Knight on the mover's last two ranks
ForcedPromotion ==
    (pc = "applied" /\ ~is_drop(move)) =>
        ~Stranded(board, move.to_sq, saved.side_to_move)

\* the same for every piece but the Lance
ForcedPromotionOfSteppers ==
    (pc = "applied" /\ ~is_drop(move) /\ Abs(board.squares[move.to_sq]) # LANCE) =>
        ~Stranded(board, move.to_sq, saved.side_to_move)

\* a Pawn or a Knight has moved onto such a rank
ForcedPromotionOfSteppersWitness ==
    /\ pc = "applied"
    /\ ~is_drop(move)
    /\ move.is_promote
    /\ must_promote(saved.squares[move.from_sq[1]], index_rank(move.to_sq))

\* m drops a Pawn
IsPawnDrop(m) == is_drop(m) /\ Abs(m.drop_piece[1]) = PAWN

\* the file holds side's piece of this kind
OnFile(b, file, piece) == \E rank \in 1..9 : get_piece(b, file, rank) = piece

\* the drop of side's piece of this kind on to_sq
Drop(side, kind, to_sq) == Move(None, to_sq, Some(side * kind), FALSE)

\* C5: legal_moves(B, B.side_to_move) contains no Pawn drop on a file that holds
\* an unpromoted Pawn of the dropping side; a promoted Pawn of that side or a
\* Pawn of the other side on the file does not keep the drop out
Nifu ==
    ret.op = "legal_moves" =>
        LET side == board.side_to_move
        IN  /\ \A k \in 1..Len(ret.moves) :
                  IsPawnDrop(ret.moves[k]) =>
                      ~OnFile(board, index_file(ret.moves[k].to_sq), side * PAWN)
            /\ \A to_sq \in 0..80 :
                  ( /\ Get(HandOf(board, side), PAWN) > 0
                    /\ board.squares[to_sq] = 0
                    /\ ~OnFile(board, index_file(to_sq), side * PAWN)
                    /\ \/ OnFile(board, index_file(to_sq), side * PROMOTED_PAWN)
                       \/ OnFile(board, index_file(to_sq), -side * PAWN)
                    /\ ~must_promote(side * PAWN, index_rank(to_sq))
                    /\ is_legal_move(board, Drop(side, PAWN, to_sq))
                    /\ ~is_drop_pawn_mate(board, Drop(side, PAWN, to_sq)) )
                  => Drop(side, PAWN, to_sq) \in Elements(ret.moves)

\* with a Pawn in hand, one file is closed by the side's Pawn while a Pawn drop
\* is returned on a file with its promoted Pawn and on one with an enemy Pawn
NifuWitness ==
    /\ ret.op = "legal_moves"
    /\ Get(HandOf(board, board.side_to_move), PAWN) > 0
    /\ \E file \in 1..9 : OnFile(board, file, board.side_to_move * PAWN)
    /\ \E k \in 1..Len(ret.moves) :
          /\ IsPawnDrop(ret.moves[k])
          /\ OnFile(board, index_file(ret.moves[k].to_sq),
                    board.side_to_move * PROMOTED_PAWN)
    /\ \E k \in 1..Len(ret.moves) :
          /\ IsPawnDrop(ret.moves[k])
          /\ OnFile(board, index_file(ret.moves[k].to_sq), -board.side_to_move * PAWN)

\* after m the side to move is in check and legal_moves of that side is empty
ChecksWithNoReply(b, m) ==
    LET after == apply_move(b, m).board
    IN  /\ is_check(after, after.side_to_move)
        /\ Len(legal_moves(after, after.side_to_move)) = 0

\* C6: no Pawn drop of legal_moves(B, B.side_to_move) both checks the other
\* King and leaves the other side no legal reply; a drop of another kind that
\* does both is in legal_moves
Uchifuzume ==
    ret.op = "legal_moves" =>
        LET side == board.side_to_move
        IN  /\ \A k \in 1..Len(ret.moves) :
                  IsPawnDrop(ret.moves[k]) => ~ChecksWithNoReply(board, ret.moves[k])
            /\ \A kind \in DOMAIN HandOf(board, side) \ {PAWN} :
                  \A to_sq \in 0..80 :
                      ( /\ board.squares[to_sq] = 0
                        /\ ~must_promote(side * kind, index_rank(to_sq))
                        /\ is_legal_move(board, Drop(side, kind, to_sq))
                        /\ ChecksWithNoReply(board, Drop(side, kind, to_sq)) )
                      => Drop(side, kind, to_sq) \in Elements(ret.moves)

\* on one square a Pawn drop would mate and is not returned, while the Gold
\* drop that mates there is
UchifuzumeWitness ==
    /\ ret.op = "legal_moves"
    /\ \E to_sq \in 0..80 :
          LET side == board.side_to_move
          IN  /\ board.squares[to_sq] = 0
              /\ Get(HandOf(board, side), PAWN) > 0
              /\ Get(HandOf(board, side), GOLD) > 0
              /\ ~OnFile(board, index_file(to_sq), side * PAWN)
              /\ Drop(side, PAWN, to_sq) \notin Elements(ret.moves)
              /\ Drop(side, GOLD, to_sq) \in Elements(ret.moves)
              /\ ChecksWithNoReply(board, Drop(side, PAWN, to_sq))
              /\ ChecksWithNoReply(board, Drop(side, GOLD, to_sq))

----------------------------------------------------------------------------
(* solver/mate1.py *)

\* C7: is_mate_in_1(B, m) is true exactly when, after m is applied to B, the
\* side now to move has its King in check and legal_moves of that side is empty
MateCharacterization ==
    ret.op = "is_mate_in_1" =>
        LET after == apply_move(board, move).board
        IN  ret.value = ( /\ in_check_by_rule(after, after.side_to_move)
                          /\ Len(legal_moves(after, after.side_to_move)) = 0 )

\* the same with the check that is_check of attack.py finds
MateCharacterizationSeenByIsCheck ==
    ret.op = "is_mate_in_1" =>
        LET after == apply_move(board, move).board
        IN  ret.value = ( /\ is_check(after, after.side_to_move)
                          /\ Len(legal_moves(after, after.side_to_move)) = 0 )

\* is_mate_in_1 has answered both ways on checking moves
MateCharacterizationSeenByIsCheckWitness ==
    /\ ret.op = "is_mate_in_1"
    /\ ret.value
    /\ generates_check(board, move)

\* C8: find_mate_moves(B) returns exactly the moves m of
\* legal_moves(B, B.side_to_move) with is_mate_in_1(B, m), the legal checking
\* moves that leave no legal reply, each of them once
MateMovesExact ==
    ret.op = "find_mate_moves" =>
        /\ ret.mate_moves =
              SelectSeq(legal_moves(board, board.side_to_move),
                        LAMBDA m : is_mate_in_1(board, m))
        /\ Elements(ret.mate_moves) =
              {m \in Elements(legal_moves(board, board.side_to_move)) :
                  generates_check(board, m) /\ ChecksWithNoReply(board, m)}
        /\ \A i, j \in 1..Len(ret.mate_moves) :
              ret.mate_moves[i] = ret.mate_moves[j] => i = j

\* two mates are found among checking moves of which some leave a reply
MateMovesExactWitness ==
    /\ ret.op = "find_mate_moves"
    /\ Len(ret.mate_moves) >= 2
    /\ ret.stats.total_checking_moves > Len(ret.mate_moves)
    /\ ret.stats.total_legal_moves > ret.stats.total_checking_moves

\* C9: verify_mate_position(B) returns is_mate = (mate_count >= 1),
\* is_unique = (mate_count = 1) = has_unique_mate(B), mate_count = the length
\* of mate_moves = stats.mate_moves; its stats have mate_moves <=
\* total_checking_moves <= total_legal_moves, total_checking_moves the length
\* of checking_moves(B), and average_responses 0 when there is no checking move
VerifyFields ==
    ret.op = "verify_mate_position" =>
        LET r == ret.result
        IN  /\ r.is_mate = (r.mate_count >= 1)
            /\ r.is_unique = (r.mate_count = 1)
            /\ r.is_unique = has_unique_mate(board)
            /\ r.mate_count = Len(r.mate_moves)
            /\ r.mate_count = r.stats.mate_moves
            /\ r.stats.mate_moves <= r.stats.total_checking_moves
            /\ r.stats.total_checking_moves <= r.stats.total_legal_moves
            /\ r.stats.total_checking_moves = Len(checking_moves(board))
            /\ r.stats.total_checking_moves = 0 => r.stats.average_responses.num = 0

\* a position with several mates is verified: is_mate without is_unique
VerifyFieldsWitness ==
    /\ ret.op = "verify_mate_position"
    /\ ret.result.is_mate
    /\ ~ret.result.is_unique
    /\ ret.result.stats.average_responses.num > 0

\* a position without a checking move is verified
VerifiedWithoutCheck ==
    /\ ret.op = "verify_mate_position"
    /\ ret.result.stats.total_checking_moves = 0
    /\ ret.result.stats.total_legal_moves > 0

----------------------------------------------------------------------------
(* board.py: SFEN *)

\* C10: for a Board B that from_sfen produced from a valid SFEN string,
\* from_sfen(to_sfen(B)) equals B in squares, side_to_move, hand_sente and
\* hand_gote, and the move number that to_sfen writes is 1
SfenRoundTrip ==
    /\ ret.op = "to_sfen" =>
          /\ pc \in {"emitted", "reparsed"}
          /\ SplitWhitespace(ret.sfen, 1, <<>>)[4] = <<"1">>
    /\ pc = "reparsed" =>
          /\ board.squares = saved.squares
          /\ board.side_to_move = saved.side_to_move
          /\ board.hand_sente = saved.hand_sente
          /\ board.hand_gote = saved.hand_gote

\* a board with promoted pieces, White to move, both hands holding ten or more
\* of a kind, read from a string whose move number is not 1, has gone round
SfenRoundTripWitness ==
    /\ pc = "reparsed"
    /\ SplitWhitespace(text, 1, <<>>)[4] # <<"1">>
    /\ board.side_to_move = -1
    /\ \E i \in 0..80 : Abs(board.squares[i]) >= PROMOTED_ROOK
    /\ Get(board.hand_sente, PAWN) >= 10
    /\ Get(board.hand_gote, ROOK) >= 10

----------------------------------------------------------------------------
(* board.py: from_sfen on malformed input *)

\* the fields of the string that FromSfen was given
TextParts == SplitWhitespace(text, 1, <<>>)

\* C11: from_sfen raises and returns no board whenever the side field is any
\* string other than exactly 'b' or 'w'; side_to_move is White only when the
\* field is 'w'
SideFieldChecked ==
    pc = "loaded" =>
        /\ TextParts[2] \in Sides
        /\ board.side_to_move = -1 <=> TextParts[2] = <<"w">>

\* the letters that name a piece, in either case
PieceLetters ==
    {"K", "R", "B", "G", "S", "N", "L", "P", "k", "r", "b", "g", "s", "n", "l", "p"}

\* every character of the field is a piece letter or one of the marks
OnlyPieceLetters(field, marks) ==
    \A i \in 1..Len(field) :
        field[i] \in PieceLetters \/ IsDigit(field[i]) \/ field[i] \in marks

\* C12: from_sfen raises and returns no board whenever the board field or the
\* hand field contains a piece letter outside K/R/B/G/S/N/L/P in either case;
\* it never returns a board with the unknown character skipped
UnknownLetterRejected ==
    pc = "loaded" =>
        /\ OnlyPieceLetters(TextParts[1], {"/", "+"})
        /\ OnlyPieceLetters(TextParts[3], {"-", "+"})

----------------------------------------------------------------------------
(* puzzles/storage.py *)

\* sfen has fewer than three whitespace-separated fields, or its board field
\* does not split into exactly nine ranks
Malformed(sfen) ==
    \/ Len(SplitWhitespace(sfen, 1, <<>>)) < 3
    \/ Len(SplitOn(SplitWhitespace(sfen, 1, <<>>)[1], "/", 1, <<>>)) # 9

\* C13: from_sfen raises ValueError for any string with fewer than three
\* whitespace-separated fields or whose board field does not split into exactly
\* nine ranks, and save_puzzle called with such a string raises ValueError and
\* leaves the stored list as it was: nothing appended, count unchanged
MalformedSaveRejected ==
    [][(ret'.op = "save_puzzle" /\ Len(calls') = Len(calls) + 1
            /\ Malformed(ret'.sfen)) =>
          /\ from_sfen(ret'.sfen).err = "ValueError"
          /\ ret'.raised = "ValueError"
          /\ ret'.value = None
          /\ load_all_puzzles(puzzle_file') = load_all_puzzles(puzzle_file)
          /\ count_puzzles(puzzle_file') = count_puzzles(puzzle_file)]_vars

\* a string with a board field of eight ranks has been refused while two
\* puzzles were stored
MalformedSaveRejectedWitness ==
    /\ ret.op = "save_puzzle"
    /\ ret.raised = "ValueError"
    /\ Len(SplitWhitespace(ret.sfen, 1, <<>>)) >= 3
    /\ Malformed(ret.sfen)
    /\ count_puzzles(puzzle_file) = 2

----------------------------------------------------------------------------
(* movegen.py: orientation *)

\* the mirror of b: the colour of every piece swapped, rank r taken to rank
\* 10 - r with files kept, the hands swapped and the side to move swapped
Mirror(b) ==
    [squares |-> [i \in 0..80 |->
                    -(b.squares[square_to_index(index_file(i), 10 - index_rank(i))])],
     side_to_move |-> -(b.side_to_move),
     hand_sente |-> b.hand_gote,
     hand_gote |-> b.hand_sente]

\* C14: the number of moves in legal_moves(B, B.side_to_move) equals the number
\* of moves in legal_moves(B', B'.side_to_move) for the mirror B' of B
MirrorSymmetry ==
    ret.op = "legal_moves" =>
        Len(ret.moves) = Len(legal_moves(Mirror(board), Mirror(board).side_to_move))

\* legal moves were counted on a board that differs from its mirror, the mover
\* holding pieces the other side does not, with promotions and drops among them
MirrorSymmetryWitness ==
    /\ ret.op = "legal_moves"
    /\ Mirror(board).squares # board.squares
    /\ board.hand_sente # board.hand_gote
    /\ \E k \in 1..Len(ret.moves) : ret.moves[k].is_promote
    /\ \E k \in 1..Len(ret.moves) : is_drop(ret.moves[k])

----------------------------------------------------------------------------
(* solver/mate1.py: the corner position of examples/demo.py *)

\* "8k/9/9/9/9/9/9/9/K8 b G 1"
CornerGoldText == SfenText(CornerBoard, <<"b">>, <<"G">>)

RECURSIVE Catalogue(_, _)
\* the list that the first k recorded calls leave behind, by the claim's
\* account: a save that returned appends its entry, a delete with an index
\* inside the list removes that entry and the later ones shift down, any other
\* call leaves the list alone
Catalogue(cs, k) ==
    IF k = 0 THEN <<>>
    ELSE LET prev == Catalogue(cs, k - 1)
             c == cs[k]
         IN  IF c.op = "save_puzzle" /\ c.raised = "" THEN Append(prev, c.value[1])
             ELSE IF c.op = "delete_puzzle" /\ 0 <= c.index /\ c.index < Len(prev)
             THEN SubSeq(prev, 1, c.index) \o SubSeq(prev, c.index + 2, Len(prev))
             ELSE prev

\* the number of recorded calls that satisfy Test
CountCalls(cs, Test(_)) == Cardinality({k \in 1..Len(cs) : Test(cs[k])})

Saved(c) == c.op = "save_puzzle" /\ c.raised = ""

Deleted(c) == c.op = "delete_puzzle" /\ c.value

\* C16: from an empty catalogue, after any sequence of save_puzzle and
\* delete_puzzle calls, load_all_puzzles returns the saved puzzles in save order
\* with exactly the deleted entries removed, count_puzzles equals the number of
\* saves minus the number of deletes that returned True, a new PuzzleStorage on
\* the same directory sees the same list, and delete_puzzle and get_puzzle with
\* an index outside 0..count-1 return False and None and leave the list alone
StorageCatalogue ==
    LET list == Catalogue(calls, Len(calls))
    IN  /\ load_all_puzzles(puzzle_file) = list
        /\ count_puzzles(puzzle_file)
              = CountCalls(calls, Saved) - CountCalls(calls, Deleted)
        /\ \A k \in 1..Len(calls) :
              calls[k].op = "delete_puzzle" =>
                 calls[k].value = (/\ 0 <= calls[k].index
                                   /\ calls[k].index < Len(Catalogue(calls, k - 1)))
        /\ ret.op = "load_all_puzzles" => ret.value = list
        /\ ret.op = "count_puzzles" => ret.value = Len(list)
        /\ ret.op = "get_puzzle" =>
              ret.value = IF 0 <= ret.index /\ ret.index < Len(list)
                          THEN Some(list[ret.index + 1]) ELSE None
        /\ ret.op = "save_puzzle" /\ ret.raised = "" =>
              /\ list # <<>>
              /\ ret.value = Some(list[Len(list)])
              /\ ret.value[1].sfen = ret.sfen

\* two different puzzles were saved, the first was deleted, and the list read
\* afterwards holds the second one alone, now at index 0
StorageCatalogueWitness ==
    /\ Len(calls) = 3
    /\ Saved(calls[1]) /\ Saved(calls[2])
    /\ calls[1].value # calls[2].value
    /\ Deleted(calls[3]) /\ calls[3].index = 0
    /\ ret.op = "load_all_puzzles"
    /\ ret.value = <<calls[2].value[1]>>

\* a delete and a get outside the list were refused while a puzzle was stored
StorageOutsideWitness ==
    /\ Len(calls) = 2
    /\ Saved(calls[1])
    /\ calls[2].op = "delete_puzzle" /\ ~calls[2].value /\ calls[2].index = 1
    /\ ret.op = "get_puzzle" /\ ret.index = -1 /\ ret.value = None

----------------------------------------------------------------------------
(* pieces.py: promotion *)

\* the pieces that promote: unpromoted Rook, Bishop, Silver, Knight, Lance, Pawn
Promotable(p) == Abs(p) \in {ROOK, BISHOP, SILVER, KNIGHT, LANCE, PAWN}

\* the promoted kinds
IsPromoted(p) == Abs(p) \in PROMOTED_ROOK..PROMOTED_PAWN

\* p and q are of the same side (both Black, both White or both Empty)
SameSign(p, q) == (p > 0) = (q > 0) /\ (p < 0) = (q < 0)

\* C17: promote and unpromote are total over -14..14; promote(p) = p for every
\* p that is not promotable, unpromote(p) = p for every p that is not a promoted
\* kind, unpromote(promote(p)) = p for every promotable p, both keep the sign of
\* p, and promote is injective on promotable pieces
PromotionAlgebra ==
    /\ ret.op = "promote" =>
          /\ ret.value \in Pieces
          /\ SameSign(ret.value, ret.piece)
          /\ ~Promotable(ret.piece) => ret.value = ret.piece
          /\ Promotable(ret.piece) =>
                /\ IsPromoted(ret.value)
                /\ \A q \in Pieces :
                      (Promotable(q) /\ promote(q) = ret.value) => q = ret.piece
    /\ ret.op = "unpromote" =>
          /\ ret.value \in Pieces
          /\ SameSign(ret.value, ret.piece)
          /\ ~IsPromoted(ret.piece) => ret.value = ret.piece
    /\ (ret.op = "unpromote(promote)" /\ Promotable(ret.piece)) =>
          ret.value = ret.piece

\* a White Pawn has been promoted and unpromoted again
PromotionAlgebraWitness ==
    /\ ret.op = "unpromote(promote)"
    /\ ret.piece = -PAWN
    /\ ret.value = -PAWN

----------------------------------------------------------------------------
(* attack.py and movegen.py: sliding and promoted sliding pieces *)

\* the single steps that a promoted slider has besides its slides
ExtraSteps(piece) ==
    IF Abs(piece) = PROMOTED_ROOK THEN {<<1, 1>>, <<1, -1>>, <<-1, 1>>, <<-1, -1>>}
    ELSE IF Abs(piece) = PROMOTED_BISHOP THEN {<<0, 1>>, <<0, -1>>, <<1, 0>>, <<-1, 0>>}
    ELSE {}

\* (file, rank) of sq moved by n times the vector d
Shifted(sq, d, n) == <<index_file(sq) + n * d[1], index_rank(sq) + n * d[2]>>

OnBoard(fr) == fr[1] \in 1..9 /\ fr[2] \in 1..9

\* the vector from square a to square t
Delta(a, t) == <<index_file(t) - index_file(a), index_rank(t) - index_rank(a)>>

\* p and q are pieces of one side
Friendly(p, q) == p * q > 0

\* C18: a +Rook attacks, and has a pseudo-legal move to, each of its four
\* diagonally adjacent on-board squares not occupied by a friendly piece, a
\* +Bishop likewise each of its four orthogonally adjacent squares; so a King
\* diagonally adjacent to an enemy +Rook is in check
PromotedSliderSteps ==
    /\ ret.op = "is_attacked_by_piece" =>
          LET piece == board.squares[ret.attacker_sq]
          IN  (/\ Delta(ret.attacker_sq, ret.target_sq) \in ExtraSteps(piece)
               /\ ~Friendly(piece, board.squares[ret.target_sq])) => ret.value
    /\ ret.op = "generate_piece_moves" =>
          LET piece == board.squares[ret.from_sq]
          IN  \A d \in ExtraSteps(piece) :
                 (/\ OnBoard(Shifted(ret.from_sq, d, 1))
                  /\ ~Friendly(piece, board.squares[square_to_index(
                         Shifted(ret.from_sq, d, 1)[1], Shifted(ret.from_sq, d, 1)[2])]))
                 => \E k \in 1..Len(ret.moves) :
                       ret.moves[k].to_sq = square_to_index(
                           Shifted(ret.from_sq, d, 1)[1], Shifted(ret.from_sq, d, 1)[2])
    /\ ret.op = "is_check" =>
          ((\E k \in 0..80, a \in 0..80 :
               /\ board.squares[k] = ret.side * KING
               /\ board.squares[a] = -(ret.side) * PROMOTED_ROOK
               /\ Delta(a, k) \in ExtraSteps(PROMOTED_ROOK)) => ret.value)

\* t is reached from a by walking along one of the slide directions of the
\* piece on a through empty squares only; t itself may be occupied
Walked(b, a, t) ==
    LET directions == get_piece_directions(b.squares[a])
    IN  \E k \in 1..Len(directions), n \in 1..8 :
           /\ OnBoard(Shifted(a, directions[k], n))
           /\ square_to_index(Shifted(a, directions[k], n)[1],
                              Shifted(a, directions[k], n)[2]) = t
           /\ \A j \in 1..(n - 1) :
                 b.squares[square_to_index(Shifted(a, directions[k], j)[1],
                                           Shifted(a, directions[k], j)[2])] = 0

\* C19: for a sliding piece on a, is_attacked_by_piece(board, t, a) is true if
\* and only if t is reached by walking from a along one of the piece's slide
\* directions through empty squares only, or t is one of the piece's extra
\* single-step squares; it is false when t = a and when a piece stands
\* strictly between a and t
SliderAttackIsWalk ==
    (ret.op = "is_attacked_by_piece"
        /\ is_sliding_piece(board.squares[ret.attacker_sq])) =>
        ret.value = (\/ Walked(board, ret.attacker_sq, ret.target_sq)
                     \/ Delta(ret.attacker_sq, ret.target_sq)
                           \in ExtraSteps(board.squares[ret.attacker_sq]))

\* the same away from the piece's own square and from the extra single steps
SliderAttackIsWalkElsewhere ==
    (ret.op = "is_attacked_by_piece"
        /\ is_sliding_piece(board.squares[ret.attacker_sq])
        /\ ret.target_sq # ret.attacker_sq
        /\ Delta(ret.attacker_sq, ret.target_sq)
              \notin ExtraSteps(board.squares[ret.attacker_sq])) =>
        ret.value = Walked(board, ret.attacker_sq, ret.target_sq)

\* a sliding piece is said to attack the square it stands on
SliderAttacksOwnSquare ==
    /\ ret.op = "is_attacked_by_piece"
    /\ ret.target_sq = ret.attacker_sq
    /\ ret.value

----------------------------------------------------------------------------
(* rules.py and movegen.py: the nesting of the uchifuzume test *)

\* the Pawn drops of side for which generate_drops, through is_legal_drop,
\* calls is_drop_pawn_mate: a Pawn is held, the square is empty, the drop is
\* not onto the last rank and not a double Pawn
TestedPawnDrops(b, side) ==
    {Drop(side, PAWN, to_sq) : to_sq \in
        {sq \in 0..80 :
            /\ Get(HandOf(b, side), PAWN) > 0
            /\ b.squares[sq] = 0
            /\ ~must_promote(side * PAWN, index_rank(sq))
            /\ ~has_double_pawn(b, index_file(sq), side)}}

\* the greatest element of a finite set of naturals, 0 for the empty set
Greatest(S) == IF S = {} THEN 0 ELSE CHOOSE x \in S : \A y \in S : y <= x

RECURSIVE is_drop_pawn_mate_depth(_, _)
\* the greatest number of is_drop_pawn_mate calls that are active at once
\* during legal_moves(b, side): each tested Pawn drop is one call, and the
\* call goes on into legal_moves for the other side when the drop gives check
is_drop_pawn_mate_depth(b, side) ==
    Greatest({1 + (IF is_check(apply_move(b, m).board, -side)
                   THEN is_drop_pawn_mate_depth(apply_move(b, m).board, -side)
                   ELSE 0) : m \in TestedPawnDrops(b, side)})

RECURSIVE legal_moves_depth(_, _)
\* the greatest number of legal_moves calls that are active at once during
\* legal_moves(b, side)
legal_moves_depth(b, side) ==
    1 + Greatest({legal_moves_depth(apply_move(b, m).board, -side) :
                    m \in {d \in TestedPawnDrops(b, side) :
                             is_check(apply_move(b, d).board, -side)}})

\* C20: from any top-level legal_moves call the uchifuzume test nests at most
\* once: the reply generation run inside is_drop_pawn_mate never itself calls
\* is_drop_pawn_mate, so the chain legal_moves -> is_drop_pawn_mate ->
\* legal_moves has depth at most 2
UchifuzumeNestsOnce ==
    ret.op = "legal_moves" =>
        /\ is_drop_pawn_mate_depth(board, board.side_to_move) <= 1
        /\ legal_moves_depth(board, board.side_to_move) <= 2

\* is_drop_pawn_mate was called from within is_drop_pawn_mate
UchifuzumeNestedTwice ==
    /\ ret.op = "legal_moves"
    /\ is_drop_pawn_mate_depth(board, board.side_to_move) >= 2

\* three legal_moves calls were active at once
LegalMovesNestedThrice ==
    /\ ret.op = "legal_moves"
    /\ legal_moves_depth(board, board.side_to_move) >= 3

\* the Pawns held in the two hands
PawnsHeld(b) == Get(b.hand_sente, PAWN) + Get(b.hand_gote, PAWN)

\* the pieces on the board
PiecesOnBoard(b) == Cardinality({i \in 0..80 : b.squares[i] # 0})

RECURSIVE DescentsDropPawn(_, _)
\* every descent from legal_moves(b, side) through is_drop_pawn_mate into
\* legal_moves, at every depth, is onto a board on which one more Pawn has left
\* a hand and stands on the board, nothing having been captured
DescentsDropPawn(b, side) ==
    \A m \in TestedPawnDrops(b, side) :
        LET r == apply_move(b, m)
        IN  is_check(r.board, -side) =>
               /\ r.captured = 0
               /\ PawnsHeld(r.board) = PawnsHeld(b) - 1
               /\ PiecesOnBoard(r.board) = PiecesOnBoard(b) + 1
               /\ DescentsDropPawn(r.board, -side)

\* C21: legal_moves(B, B.side_to_move) terminates: every nested descent
\* legal_moves -> is_drop_pawn_mate -> legal_moves happens on a board on which
\* one more Pawn has left a hand and no piece has been captured, so the nesting
\* depth never exceeds the number of Pawns held in the two hands plus one
NestingBoundedByPawns ==
    ret.op = "legal_moves" =>
        /\ DescentsDropPawn(board, board.side_to_move)
        /\ legal_moves_depth(board, board.side_to_move) <= PawnsHeld(board) + 1
        /\ is_drop_pawn_mate_depth(board, board.side_to_move) <= PawnsHeld(board)

\* legal_moves returned after three nested calls, both sides holding a Pawn
NestingBoundedByPawnsWitness ==
    /\ ret.op = "legal_moves"
    /\ Get(board.hand_sente, PAWN) >= 1
    /\ Get(board.hand_gote, PAWN) >= 1
    /\ legal_moves_depth(board, board.side_to_move) = 3

\* ---------------------------------------------------------------------
\* gen/quality.py

\* count_pieces(board): the squares that are not empty
count_pieces(b) == Cardinality({i \in 0..80 : b.squares[i] # 0})

\* the sum "difficulty" of calculate_difficulty as the fraction num/den, the
\* floats 0.5, 0.3 and 1.0 being 5/10, 3/10 and 10/10
DifficultyScore(stats) ==
    [num |-> (IF stats.total_legal_moves > 0
              THEN 5 * stats.total_legal_moves * stats.average_responses.den
              ELSE 0)
             + (IF stats.total_checking_moves > 0
                THEN 3 * (stats.total_legal_moves - stats.total_checking_moves)
                       * stats.average_responses.den
                ELSE 0)
             + 10 * stats.average_responses.num,
     den |-> 10 * stats.average_responses.den]

\* DifficultyMetrics(...) built from the populated stats
DifficultyMetrics(total_pieces, found) ==
    [total_pieces |-> total_pieces,
     legal_moves |-> found.stats.total_legal_moves,
     checking_moves |-> found.stats.total_checking_moves,
     mate_moves |-> Len(found.mate_moves),
     average_responses |-> found.stats.average_responses,
     difficulty_score |-> DifficultyScore(found.stats)]

calculate_difficulty(b) == DifficultyMetrics(count_pieces(b), find_mate_moves(b))

\* is_quality_position once mate_moves is known
QualityOfMates(mate_moves, require_unique) ==
    IF Len(mate_moves) = 0 THEN FALSE
    ELSE IF require_unique /\ Len(mate_moves) # 1 THEN FALSE
    ELSE TRUE

is_quality_position(b, require_unique, min_pieces, max_pieces) ==
    IF count_pieces(b) < min_pieces \/ count_pieces(b) > max_pieces THEN FALSE
    ELSE QualityOfMates(find_mate_moves(b).mate_moves, require_unique)

CalculateDifficulty ==
    /\ pc = "loaded"
    /\ LET r == calculate_difficulty(board)
       IN  ret' = [op |-> "calculate_difficulty", metrics |-> r,
                   stats |-> find_mate_moves(board).stats]
    /\ pc' = "queried"
    /\ UNCHANGED <<board, saved, move, captured, promoted, text, puzzle_file, calls>>

\* C22: the difficulty score returned by calculate_difficulty is
\* 0.5*L + 0.3*(L - C) + 1.0*A for the statistics L, C and A that
\* find_mate_moves populates on the same board, whatever their values
DifficultyFormula ==
    ret.op = "calculate_difficulty" =>
        ret.metrics.difficulty_score.num * (10 * ret.stats.average_responses.den)
          = (5 * ret.stats.total_legal_moves * ret.stats.average_responses.den
             + 3 * (ret.stats.total_legal_moves - ret.stats.total_checking_moves)
                 * ret.stats.average_responses.den
             + 10 * ret.stats.average_responses.num)
            * ret.metrics.difficulty_score.den

\* the formula holds on every board that has a checking move
DifficultyFormulaWithChecks ==
    (ret.op = "calculate_difficulty" /\ ret.stats.total_checking_moves > 0) =>
        DifficultyFormula

\* the squares of b that hold the piece p
SquaresHolding(b, p) == {i \in 0..80 : b.squares[i] = p}

\* one King of each side on the board and no King in either hand
OneKingEach(b) ==
    /\ Cardinality(SquaresHolding(b, KING)) = 1
    /\ Cardinality(SquaresHolding(b, -KING)) = 1
    /\ Get(b.hand_sente, KING) = 0
    /\ Get(b.hand_gote, KING) = 0

\* C23: on a board with one King of each side and no King in hand, apply_move
\* of a move of legal_moves(B, B.side_to_move) leaves one King of each side on
\* the board and no King in either hand
KingsPreserved ==
    (pc = "applied" /\ OneKingEach(saved)) => OneKingEach(board)

\* the same when the side that is not to move is not in check on B
KingsPreservedOutOfCheck ==
    (pc = "applied" /\ OneKingEach(saved)
        /\ ~is_check(saved, -saved.side_to_move)) => OneKingEach(board)

\* every entry of the hand is an unpromoted kind with a count of at least 1
CleanHand(hand) ==
    \A k \in DOMAIN hand : k \in KING..PAWN /\ hand[k] >= 1

CleanHands(b) == CleanHand(b.hand_sente) /\ CleanHand(b.hand_gote)

WellFormedBoardMove(b, side, m) ==
    /\ Len(m.from_sq) = 1
    /\ m.from_sq[1] \in 0..80
    /\ m.to_sq \in 0..80
    /\ b.squares[m.from_sq[1]] * side > 0
    /\ b.squares[m.to_sq] * side <= 0

\* a drop of side that is well-formed on b
WellFormedDrop(b, side, m) ==
    /\ Len(m.drop_piece) = 1
    /\ m.to_sq \in 0..80
    /\ b.squares[m.to_sq] = 0
    /\ m.drop_piece[1] * side > 0
    /\ Get(HandOf(b, side), Abs(m.drop_piece[1])) >= 1

\* C25: every move of legal_moves(B, B.side_to_move) is well-formed for B: a
\* board move leaves a square that holds a piece of the side to move for a
\* square that is empty or holds an opposing piece, and a drop puts a piece
\* signed for the side to move, of a kind held at least once, on an empty square
LegalMovesWellFormed ==
    ret.op = "legal_moves" =>
        \A k \in 1..Len(ret.moves) :
            IF is_drop(ret.moves[k])
            THEN WellFormedDrop(board, board.side_to_move, ret.moves[k])
            ELSE WellFormedBoardMove(board, board.side_to_move, ret.moves[k])

\* reached: a list of legal moves with a drop and a capture in it
LegalMovesWellFormedWitness ==
    /\ ret.op = "legal_moves"
    /\ \E k \in 1..Len(ret.moves) : is_drop(ret.moves[k])
    /\ \E k \in 1..Len(ret.moves) :
          ~is_drop(ret.moves[k]) /\ board.squares[ret.moves[k].to_sq] # 0

\* the board moves of pseudo_legal_moves(b, side)
BoardMoves(b, side) ==
    SelectSeq(pseudo_legal_moves(b, side), LAMBDA m : ~is_drop(m))

\* rank lies in the promotion zone of side: ranks 1-3 for Black, 7-9 for White
InZone(side, rank) == IF side > 0 THEN rank \in 1..3 ELSE rank \in 7..9

\* m moves a promotable piece of b from or to its promotion zone
ZoneMove(b, side, m) ==
    /\ Promotable(b.squares[m.from_sq[1]])
    /\ \/ InZone(side, index_rank(m.from_sq[1]))
       \/ InZone(side, index_rank(m.to_sq))

\* the piece would never move again from to_sq: a Pawn or Lance on the last
\* rank, a Knight on the last two
MustPromoteByRule(b, side, m) ==
    LET kind == Abs(b.squares[m.from_sq[1]])
        last == IF side > 0 THEN 1 ELSE 9
        second == IF side > 0 THEN 2 ELSE 8
    IN  \/ kind \in {PAWN, LANCE} /\ index_rank(m.to_sq) = last
        \/ kind = KNIGHT /\ index_rank(m.to_sq) \in {last, second}

\* how many times m occurs in the list ms
Occurrences(ms, m) == Cardinality({k \in 1..Len(ms) : ms[k] = m})

PromotionVariants(b, side) ==
    LET ms == BoardMoves(b, side)
    IN  \A k \in 1..Len(ms) :
            /\ ms[k].is_promote => ZoneMove(b, side, ms[k])
            /\ (ZoneMove(b, side, ms[k]) /\ ~MustPromoteByRule(b, side, ms[k])) =>
                  /\ Occurrences(ms, Move(ms[k].from_sq, ms[k].to_sq, None, TRUE)) = 1
                  /\ Occurrences(ms, Move(ms[k].from_sq, ms[k].to_sq, None, FALSE)) = 1

\* C26: among the pseudo-legal board moves a move with promote set is one of
\* an unpromoted Rook, Bishop, Silver, Knight, Lance or Pawn whose from-rank
\* or to-rank lies in the mover's promotion zone, and every such move that is
\* not a forced promotion is generated once with and once without promotion
PromotionVariantsGenerated ==
    ret.op = "legal_moves" => PromotionVariants(board, board.side_to_move)

\* reached: a list with a promoting move of a Silver, a forced promotion
\* and a zone move of a Rook, Bishop or Lance
PromotionVariantsGeneratedWitness ==
    /\ ret.op = "legal_moves"
    /\ \E m \in Elements(BoardMoves(board, board.side_to_move)) :
          m.is_promote /\ Abs(board.squares[m.from_sq[1]]) = SILVER
    /\ \E m \in Elements(BoardMoves(board, board.side_to_move)) :
          MustPromoteByRule(board, board.side_to_move, m)
    /\ \E m \in Elements(BoardMoves(board, board.side_to_move)) :
          /\ ZoneMove(board, board.side_to_move, m)
          /\ Abs(board.squares[m.from_sq[1]]) \in {ROOK, BISHOP, LANCE}

\* the hand fields of the drop positions: one piece of one kind, or one of
\* each kind, held by the side to move
DropKinds == <<"R", "B", "G", "S", "N", "L", "P">>

DropHands(side) ==
    LET letters == IF side = <<"b">> THEN DropKinds
                   ELSE <<"r", "b", "g", "s", "n", "l", "p">>
    IN  {<<letters[k]>> : k \in 1..Len(letters)} \cup {letters}

DropTexts ==
    {SfenText(ranks, sh[1], sh[2]) :
        ranks \in {CornerBoard, PawnMateBoard, NifuBoard, RookMateBoard},
        sh \in UNION {{<<side, hand>> : hand \in DropHands(side)} : side \in Sides}}

NextDrops ==
    \/ \E sfen \in DropTexts : FromSfen(sfen)
    \/ LegalMoves

SpecDrops == Init /\ [][NextDrops]_vars

\* side may not drop the kind on to_sq: a Pawn or Lance on its last rank, a
\* Knight on its last two ranks
NowhereToGo(side, kind, to_sq) ==
    LET rank == index_rank(to_sq)
    IN  \/ kind \in {PAWN, LANCE} /\ rank = (IF side > 0 THEN 1 ELSE 9)
        \/ kind = KNIGHT /\ (IF side > 0 THEN rank <= 2 ELSE rank >= 8)

\* C27: legal_moves(B, B.side_to_move) holds no drop of a Pawn or Lance on the
\* dropper's last rank and no drop of a Knight on its last two ranks, and a
\* held Rook, Bishop, Gold or Silver is offered on every empty square, whatever
\* its rank, and kept whenever the drop does not leave the King in check
DropRanks ==
    ret.op = "legal_moves" =>
        /\ \A k \in 1..Len(ret.moves) :
              is_drop(ret.moves[k]) =>
                  ~NowhereToGo(board.side_to_move, Abs(ret.moves[k].drop_piece[1]),
                               ret.moves[k].to_sq)
        /\ \A kind \in {ROOK, BISHOP, GOLD, SILVER}, to_sq \in 0..80 :
              (Get(HandOf(board, board.side_to_move), kind) >= 1
                  /\ board.squares[to_sq] = 0) =>
                 /\ Drop(board.side_to_move, kind, to_sq)
                        \in Elements(generate_drops(board, board.side_to_move))
                 /\ Drop(board.side_to_move, kind, to_sq) \in Elements(ret.moves)
                        <=> is_legal_move(board, Drop(board.side_to_move, kind, to_sq))

\* reached: White holds one piece of each kind and drops a Knight on rank 7, a
\* Pawn on rank 8 and a Silver on rank 9
DropRanksWitness ==
    /\ ret.op = "legal_moves"
    /\ board.side_to_move = -1
    /\ \E to_sq \in 0..80 :
          index_rank(to_sq) = 7 /\ Drop(-1, KNIGHT, to_sq) \in Elements(ret.moves)
    /\ \E to_sq \in 0..80 :
          index_rank(to_sq) = 8 /\ Drop(-1, PAWN, to_sq) \in Elements(ret.moves)
    /\ \E to_sq \in 0..80 :
          index_rank(to_sq) = 9 /\ Drop(-1, SILVER, to_sq) \in Elements(ret.moves)

\* ---------------------------------------------------------------------
\* gen/reverse_gen.py and gen/random_gen.py

\* board.set_piece(file, rank, piece)
set_piece(b, file, rank, piece) ==
    [b EXCEPT !.squares[square_to_index(file, rank)] = piece]

RECURSIVE SetPieces(_, _, _)
\* the set_piece calls of a template, <<file, rank, piece>> each, from the k-th
SetPieces(b, placed, k) ==
    IF k > Len(placed) THEN b
    ELSE SetPieces(set_piece(b, placed[k][1], placed[k][2], placed[k][3]),
                   placed, k + 1)

create_template_mate_position(template_id) ==
    IF template_id = 0
    THEN [SetPieces(NewBoard, << <<5, 1, -KING>>, <<4, 1, -SILVER>>,
                                  <<6, 1, -SILVER>>, <<4, 2, -PAWN>>,
                                  <<5, 2, -PAWN>>, <<6, 2, -PAWN>>,
                                  <<5, 9, KING>> >>, 1)
             EXCEPT !.side_to_move = 1, !.hand_sente = Put(EmptyDict, ROOK, 1)]
    ELSE IF template_id = 1
    THEN [SetPieces(NewBoard, << <<1, 1, -KING>>, <<2, 1, -GOLD>>,
                                  <<1, 2, -GOLD>>, <<2, 2, -PAWN>>,
                                  <<5, 9, KING>> >>, 1)
             EXCEPT !.side_to_move = 1, !.hand_sente = Put(EmptyDict, GOLD, 1)]
    ELSE IF template_id = 2
    THEN [SetPieces(NewBoard, << <<5, 1, -KING>>, <<4, 1, -GOLD>>,
                                  <<6, 1, -GOLD>>, <<4, 2, -SILVER>>,
                                  <<5, 2, -PAWN>>, <<6, 2, -SILVER>>,
                                  <<5, 3, ROOK>>, <<5, 9, KING>> >>, 1)
             EXCEPT !.side_to_move = 1]
    ELSE [SetPieces(NewBoard, << <<9, 1, -KING>>, <<8, 1, -GOLD>>,
                                  <<9, 2, -GOLD>>, <<8, 2, -PAWN>>,
                                  <<5, 9, KING>> >>, 1)
             EXCEPT !.side_to_move = 1, !.hand_sente = Put(EmptyDict, GOLD, 1)]

\* the defaults min_pieces=3 and max_pieces=20 of is_quality_position, and
\* max_pieces=10 of generate_random
DefaultMinPieces == 3
DefaultMaxPieces == 20
RandomMaxPieces == 10

RECURSIVE ReverseLoop(_, _, _)
\* the loop "for i in range(n_problems)" from the i-th round on, template_ids
\* being the values random.randint(0, 2) returns
ReverseLoop(puzzles, template_ids, i) ==
    IF i > Len(template_ids) THEN puzzles
    ELSE LET b == create_template_mate_position(template_ids[i])
         IN  IF is_quality_position(b, FALSE, DefaultMinPieces, DefaultMaxPieces)
             THEN ReverseLoop(Append(puzzles, b), template_ids, i + 1)
             ELSE ReverseLoop(Append(puzzles, b), template_ids, i + 1)

\* generate_reverse(n_problems, seed), n_problems = Len(template_ids)
generate_reverse(template_ids) == ReverseLoop(<<>>, template_ids, 1)

RECURSIVE RandomLoop(_, _, _, _, _, _)
\* the loop "while len(puzzles) < n_problems and attempts < max_attempts",
\* drawn being the boards create_random_position returns, max_attempts of them
RandomLoop(puzzles, n_problems, max_pieces, require_unique, drawn, attempts) ==
    IF ~(Len(puzzles) < n_problems /\ attempts < Len(drawn)) THEN puzzles
    ELSE RandomLoop(IF is_quality_position(drawn[attempts + 1], require_unique,
                                           3, max_pieces)
                    THEN Append(puzzles, drawn[attempts + 1]) ELSE puzzles,
                    n_problems, max_pieces, require_unique, drawn, attempts + 1)

\* generate_random(n_problems, max_pieces, require_unique, seed, max_attempts),
\* max_attempts = Len(drawn)
generate_random(n_problems, max_pieces, require_unique, drawn) ==
    RandomLoop(<<>>, n_problems, max_pieces, require_unique, drawn, 0)

\* "4k4/9/4G4/9/9/9/9/9/4K4": a Gold dropped on 5b is the only mate
GoldMateBoard ==
    << <<"4", "k", "4">>,
       <<"9">>,
       <<"4", "G", "4">>,
       <<"9">>,
       <<"9">>,
       <<"9">>,
       <<"9">>,
       <<"9">>,
       <<"4", "K", "4">> >>

\* boards create_random_position(10) can return (the Black King on ranks
\* 7-9, the White King on ranks 1-3, up to 8 unpromoted pieces more, up to 3
\* Pawns, Silvers or Golds in hand): two bare Kings, a board with four mates,
\* one with a single mate, one without a mate, and the board of template 1
RandomPositions ==
    {from_sfen(SfenText(CornerBoard, <<"b">>, <<"-">>)).board,
     from_sfen(SfenText(RookMateBoard, <<"b">>, <<"-">>)).board,
     from_sfen(SfenText(GoldMateBoard, <<"b">>, <<"G">>)).board,
     from_sfen(SfenText(PawnMateBoard, <<"b">>, <<"P">>)).board,
     create_template_mate_position(1)}

MaxProblems == 2
MaxAttempts == 2

GenerateReverse(template_ids) ==
    /\ pc = "new"
    /\ ret' = [op |-> "generate_reverse", puzzles |-> generate_reverse(template_ids)]
    /\ pc' = "queried"
    /\ UNCHANGED <<board, saved, move, captured, promoted, text, puzzle_file, calls>>

GenerateRandom(n_problems, require_unique, drawn) ==
    /\ pc = "new"
    /\ ret' = [op |-> "generate_random",
               puzzles |-> generate_random(n_problems, RandomMaxPieces,
                                           require_unique, drawn)]
    /\ pc' = "queried"
    /\ UNCHANGED <<board, saved, move, captured, promoted, text, puzzle_file, calls>>

NextGenerators ==
    \/ \E sfen \in Positions : FromSfen(sfen)
    \/ CalculateDifficulty
    \/ \E n \in 0..MaxProblems : \E template_ids \in [1..n -> 0..2] :
          GenerateReverse(template_ids)
    \/ \E n \in 0..MaxProblems, require_unique \in BOOLEAN :
          \E drawn \in [1..MaxAttempts -> RandomPositions] :
              GenerateRandom(n, require_unique, drawn)

SpecGenerators == Init /\ [][NextGenerators]_vars

\* C28: every board that generate_reverse or generate_random returns passed
\* the mate-in-1 verifier: find_mate_moves on it is not empty
GeneratedBoardsHaveMate ==
    ret.op \in {"generate_reverse", "generate_random"} =>
        \A k \in 1..Len(ret.puzzles) :
            Len(find_mate_moves(ret.puzzles[k]).mate_moves) > 0

\* the same for generate_random alone
RandomBoardsHaveMate ==
    ret.op = "generate_random" =>
        \A k \in 1..Len(ret.puzzles) :
            Len(find_mate_moves(ret.puzzles[k]).mate_moves) > 0

RECURSIVE RankWidth(_, _)
\* the squares a rank string describes from its i-th character on: the sum
\* of its digits, and one for each piece, a '+' counting with its letter
RankWidth(rank_str, i) ==
    IF i > Len(rank_str) THEN 0
    ELSE IF IsDigit(rank_str[i]) THEN DigitVal(rank_str[i]) + RankWidth(rank_str, i + 1)
    ELSE IF rank_str[i] = "+" /\ i + 1 <= Len(rank_str) THEN 1 + RankWidth(rank_str, i + 2)
    ELSE 1 + RankWidth(rank_str, i + 1)

RECURSIVE RankNames(_, _)
\* what piece_from_sfen makes of the characters of a rank string that are
\* not digits, from the i-th character on
RankNames(rank_str, i) ==
    IF i > Len(rank_str) THEN <<>>
    ELSE IF IsDigit(rank_str[i]) THEN RankNames(rank_str, i + 1)
    ELSE IF rank_str[i] = "+" /\ i + 1 <= Len(rank_str)
    THEN piece_from_sfen(<<"+", rank_str[i + 1]>>) \o RankNames(rank_str, i + 2)
    ELSE piece_from_sfen(<<rank_str[i]>>) \o RankNames(rank_str, i + 1)

\* the pieces a rank string names, from its i-th character on
RankPieces(rank_str, i) == SelectSeq(RankNames(rank_str, i), LAMBDA p : p # 0)

\* the pieces on rank r of b, from file 9 to file 1
PiecesOfRank(b, r) ==
    SelectSeq([k \in 1..9 |-> b.squares[(r - 1) * 9 + k - 1]], LAMBDA p : p # 0)

\* the rank strings of the string that FromSfen was given
TextRanks == SplitOn(TextParts[1], "/", 1, <<>>)

\* C29: from_sfen lets no rank string spill over its rank: a string with a
\* rank that describes more than 9 squares is refused, and the pieces on rank
\* r of a returned board are the pieces that rank string r names, in order
RanksDoNotSpill ==
    pc = "loaded" =>
        \A r \in 1..9 :
            /\ RankWidth(TextRanks[r], 1) <= 9
            /\ PiecesOfRank(board, r) = RankPieces(TextRanks[r], 1)

\* the same for the strings whose ranks describe at most 9 squares each
RanksParsedInPlace ==
    (pc = "loaded" /\ \A r \in 1..9 : RankWidth(TextRanks[r], 1) <= 9) =>
        \A r \in 1..9 : PiecesOfRank(board, r) = RankPieces(TextRanks[r], 1)

\* the position the moves of any shape are made on: DragonBoard with a Gold
\* in Black's hand, either side to move
AnyMoveTexts == {SfenText(DragonBoard, side, <<"G">>) : side \in Sides}

\* every move with squares in 0..80: a board move from any square to any
\* square with or without the promote flag, a drop of any piece on any square
AnyMoves ==
    {Move(Some(from_sq), to_sq, None, is_promote) :
        from_sq \in 0..80, to_sq \in 0..80, is_promote \in BOOLEAN}
    \cup {Move(None, to_sq, Some(piece), FALSE) :
            to_sq \in 0..80, piece \in Pieces \ {0}}

\* board.apply_move(m) for a move the caller made up
ApplyAnyMove(m) ==
    /\ pc = "loaded"
    /\ move' = m
    /\ board' = apply_move(board, m).board
    /\ captured' = apply_move(board, m).captured
    /\ promoted' = apply_move(board, m).promoted
    /\ saved' = board
    /\ pc' = "applied"
    /\ UNCHANGED <<text, ret, puzzle_file, calls>>

NextMoves ==
    \/ \E sfen \in AnyMoveTexts : FromSfen(sfen)
    \/ \E m \in AnyMoves : ApplyAnyMove(m)
    \/ UndoMove

SpecMoves == Init /\ [][NextMoves]_vars

\* C30: for every move with squares in 0..80, generated or not, undo_move
\* with the record that apply_move returned restores the squares, both hands
\* and the side to move
UndoRestoresAnyMove ==
    pc = "undone" => board = saved

\* m is a move the rules allow the shape of: a piece of the side to move goes
\* to a square that holds no piece of its own, the promote flag set only on a
\* piece that can promote, or a piece held by the side to move, signed for
\* it, is dropped on an empty square
Shaped(b, m) ==
    IF is_drop(m) THEN WellFormedDrop(b, b.side_to_move, m)
    ELSE /\ WellFormedBoardMove(b, b.side_to_move, m)
         /\ m.is_promote => Promotable(b.squares[m.from_sq[1]])

\* the same for the moves of an allowed shape
UndoRestoresShapedMove ==
    (pc = "undone" /\ Shaped(saved, move)) => board = saved

====
